---- MODULE Spec2Model ----
(***************************************************************************)
(* Workout session engine of the Min-Max Companion (js/workout.js,         *)
(* js/storage.js, js/program.js): the active workout held in memory and    *)
(* mirrored to localStorage, the once-per-second timer, the workout        *)
(* history, and the pending selection left in sessionStorage by the        *)
(* Program tab.                                                            *)
(*                                                                         *)
(* Execution is single-threaded and event-driven: every action below is    *)
(* one event handler run to completion.  The only suspension point that    *)
(* lets other events in is the catalog lookup awaited by startNewWorkout,  *)
(* so initWorkoutUI is split there (InitWorkoutUI / StartNewWorkout).      *)
(* window.confirm blocks the event loop, so a handler that asks for        *)
(* confirmation is still one step.  Writes of the active-workout snapshot  *)
(* are taken to succeed; the history write of saveWorkout may throw.       *)
(***************************************************************************)
EXTENDS Integers, Sequences, FiniteSets, Bags, TLC

(***************************************************************************)
(* Bounds of the model.                                                    *)
(***************************************************************************)
\* timestamps (new Date()) a behaviour may store
MaxNow == 2
\* timer ticks counted in elapsedSeconds
MaxElapsed == 1
\* largest weight the +/- buttons may produce
MaxWeight == 5
\* largest repetition count the +/- buttons may produce
MaxReps == 1
\* initWorkoutUI invocations suspended at the catalog lookup at one time
MaxInflight == 1
\* the same, where initWorkoutUI invocations overlap
MaxOverlap == 2

(***************************************************************************)
(* JavaScript values held in weight / reps / sets fields.                  *)
(*   str   a non-empty numeric string "n" (the value of a number input)    *)
(*   empty the empty string ''                                             *)
(*   num   the number n                                                    *)
(*   nan, undef, null                                                      *)
(***************************************************************************)
EmptyStr == [t |-> "empty", n |-> 0]
Str(n) == [t |-> "str", n |-> n]
Num(n) == [t |-> "num", n |-> n]
NaN == [t |-> "nan", n |-> 0]
Undefined == [t |-> "undef", n |-> 0]
JNull == [t |-> "null", n |-> 0]

\* JavaScript truthiness: a non-empty string (even "0") is truthy, the
\* number 0, NaN, '', undefined and null are falsy.
Truthy(v) == v.t = "str" \/ (v.t = "num" /\ v.n # 0)

\* parseFloat / parseInt on the values above (all numerals are integers).
parseFloat(v) == IF v.t \in {"str", "num"} THEN Num(v.n) ELSE NaN

parseInt(v) == IF v.t \in {"str", "num"} THEN Num(v.n) ELSE NaN

\* a || b
OrElse(a, b) == IF Truthy(a) THEN a ELSE b

\* The value attribute of a number input rendered from a field: the numeral
\* of a number or numeric string, '' for anything else.
InputValue(v) == IF v.t \in {"str", "num"} THEN Str(v.n) ELSE EmptyStr

\* JSON.parse(JSON.stringify(v)) of a number or string: NaN is written as
\* null.
JSONValue(v) == IF v.t = "nan" THEN JNull ELSE v

\* a property of a parsed object that JSON.stringify left out
Absent == [t |-> "absent", n |-> 0]

\* JSON.stringify / JSON.parse of an object property: a property whose
\* value is undefined is left out
JSONProperty(v) == IF v.t = "undef" THEN Absent ELSE JSONValue(v)

\* Math.max
Max(a, b) == IF a >= b THEN a ELSE b

\* null, for currentWorkout, the stored snapshot and the pending selection
Null == [null |-> TRUE]

(***************************************************************************)
(* Program catalog (data/program.json as read by program.js): week 1 with  *)
(* two days, week 3 with three days, week 4 with no day, and no week 2.    *)
(***************************************************************************)
programData ==
  [weeks |-> <<
     [week |-> 1,
      days |-> <<
        [day_type |-> "Upper",
         exercises |-> << [exercise |-> "Bench", sets |-> Str(1)],
                          [exercise |-> "Row", sets |-> Str(1)] >>],
        [day_type |-> "Full Body",
         exercises |-> << [exercise |-> "Bench", sets |-> Undefined] >>]
      >>],
     [week |-> 3,
      days |-> <<
        [day_type |-> "Lower",
         exercises |-> << [exercise |-> "Squat", sets |-> Str(2)] >>],
        [day_type |-> "Upper",
         exercises |-> << [exercise |-> "Bench", sets |-> Str(1)] >>],
        [day_type |-> "Full Body",
         exercises |-> << [exercise |-> "Squat", sets |-> Str(1)] >>]
      >>],
     [week |-> 4, days |-> << >>]
  >>]

\* program.js getWeek: the first week with that number, or null
getWeek(weekNum) ==
  LET ws == programData.weeks
      hits == {i \in DOMAIN ws : ws[i].week = weekNum}
  IN IF hits = {} THEN Null
     ELSE ws[CHOOSE i \in hits : \A j \in hits : i <= j]

\* variant: a day type the week does not have falls back to its first day
getDay_FirstDay(weekNum, dayType) ==
  LET week == getWeek(weekNum)
  IN IF week = Null THEN Null
     ELSE LET hits == {i \in DOMAIN week.days : week.days[i].day_type = dayType}
          IN IF hits = {} THEN week.days[1]
             ELSE week.days[CHOOSE i \in hits : \A j \in hits : i <= j]

\* program.js getDay: the first day of the week with that day_type, or null
getDay(weekNum, dayType) ==
  LET week == getWeek(weekNum)
  IN IF week = Null THEN Null
     ELSE LET hits == {i \in DOMAIN week.days : week.days[i].day_type = dayType}
          IN IF hits = {} THEN Null
             ELSE week.days[CHOOSE i \in hits : \A j \in hits : i <= j]

\* the (week, dayType) pairs the Start Workout buttons of the Program tab
\* hand to the Workout tab: the days of week 1 of the catalog
Selections ==
  { [week |-> 1, dayType |-> "Upper"],
    [week |-> 1, dayType |-> "Full Body"] }

\* values a user types into a weight / reps input
TypedWeights == {Str(5)}

TypedReps == {Str(1)}

VARIABLES
  currentWorkout,   \* workout.js currentWorkout: Null or the session object
  workoutTimer,     \* workout.js workoutTimer: TRUE iff it holds an interval id
  intervals,        \* number of setInterval callbacks currently scheduled
  elapsedSeconds,   \* workout.js elapsedSeconds
  activeState,      \* localStorage[minmax_active_workout_state], parsed; Null if
                    \* absent, Unparsable if the text is not valid JSON
  history,          \* localStorage[minmax_workout_history], parsed: entries in key
                    \* order, with Unparsable where the text stops being valid JSON
  pendingWorkout,   \* sessionStorage[minmax_active_workout], parsed; Null if absent
  inflight,         \* bag of startNewWorkout calls suspended at await getDay
  screen,           \* what #workout-screen shows: blank, active, empty or summary
  now,              \* number of clock readings taken so far
  today,            \* calendar day of the wall clock
  currentWeek,      \* localStorage[minmax_current_week]: JNull if absent, else
                    \* the stored string
  lastOp,           \* history variable: the handler that ran last, the row it
                    \* was aimed at, the answer to its confirm dialog and the
                    \* outcome of its history write; for a query, its
                    \* arguments and the value it returned
  initRuns          \* history variable: initWorkoutUI calls completed in a row,
                    \* with no other event between them (counted up to 2)

vars == << currentWorkout, workoutTimer, intervals, elapsedSeconds, activeState,
           history, pendingWorkout, inflight, screen, now, today, currentWeek,
           lastOp, initRuns >>


(***************************************************************************)
(* The wall clock.  A timestamp is the calendar day and the ordinal of the *)
(* clock reading; every reading whose value is stored advances the         *)
(* ordinal, so two stored timestamps are never the same instant.           *)
(***************************************************************************)
Timestamp == [date |-> today, seq |-> now]

\* new Date(a) - new Date(b) < 0
Earlier(a, b) == a.date < b.date \/ (a.date = b.date /\ a.seq < b.seq)

(***************************************************************************)
(* storage.js                                                              *)
(***************************************************************************)
\* a stored text, or the part of it, that JSON.parse cannot read
Unparsable == [corrupt |-> TRUE]

\* JSON.parse throws on the text of the history
Corrupt(h) == \E i \in DOMAIN h : h[i] = Unparsable

\* variant: the records that precede the unreadable part are returned
getWorkoutHistory_Lenient ==
  SelectSeq(history, LAMBDA w : w # Unparsable)

\* getWorkoutHistory: the stored entries, in the key order of the object;
\* the empty object when the key is missing or JSON.parse throws
getWorkoutHistory ==
  IF Corrupt(history) THEN << >> ELSE history

\* variant: every day type gives the same key part
NormalizeDayType_Collapsed(dayType) == "day"

\* dayType.toLowerCase().replace(/\s+/g, '') on the day types in use
NormalizeDayType(dayType) ==
  CASE dayType = "Upper" -> "upper"
    [] dayType = "Full Body" -> "fullbody"
    [] OTHER -> dayType

\* variant: the key carries the instant of the finish, not only its day
workoutKey_PerFinish(weekNum, dayType, ts) ==
  [week |-> weekNum, day |-> NormalizeDayType(dayType), date |-> ts.date,
   seq |-> ts.seq]

\* the key week-<n>-<daytype>-<YYYY-MM-DD> built by saveWorkout
workoutKey(weekNum, dayType, ts) ==
  [week |-> weekNum, day |-> NormalizeDayType(dayType), date |-> ts.date]

\* variant: the history is rebuilt from the new record alone
saveWorkout_Fresh(weekNum, dayType, data) ==
  << [key |-> workoutKey(weekNum, dayType, Timestamp),
      week |-> weekNum,
      dayType |-> dayType,
      completedAt |-> Timestamp,
      exercises |-> data.exercises] >>

\* saveWorkout with a successful setItem: history[workoutKey] = {...}.  An
\* existing key keeps its place in the object, a new key goes last.
saveWorkout(weekNum, dayType, data) ==
  LET h == getWorkoutHistory
      entry == [key |-> workoutKey(weekNum, dayType, Timestamp),
                week |-> weekNum,
                dayType |-> dayType,
                completedAt |-> Timestamp,
                exercises |-> data.exercises]
      at == {i \in DOMAIN h : h[i].key = entry.key}
  IN IF at = {} THEN Append(h, entry)
     ELSE [i \in DOMAIN h |-> IF i \in at THEN entry ELSE h[i]]

\* insert w into a list sorted most recent first, after every element that
\* is not earlier than it (Array.prototype.sort is stable)
RECURSIVE InsertByCompletedAt(_, _)
InsertByCompletedAt(sorted, w) ==
  IF sorted = << >> THEN << w >>
  ELSE IF Earlier(Head(sorted).completedAt, w.completedAt)
       THEN << w >> \o sorted
       ELSE << Head(sorted) >> \o InsertByCompletedAt(Tail(sorted), w)

\* variant: the records are taken in the order of their keys
SortByCompletedAtDesc_Unsorted(ws) == ws

\* Object.values(history).sort((a, b) => new Date(b.completedAt) - new Date(a.completedAt))
RECURSIVE SortByCompletedAtDesc(_)
SortByCompletedAtDesc(ws) ==
  IF ws = << >> THEN << >>
  ELSE InsertByCompletedAt(SortByCompletedAtDesc(SubSeq(ws, 1, Len(ws) - 1)),
                           ws[Len(ws)])

\* workout.exercises.find(ex => ex.name === exerciseName), or Null
FindExercise(workout, exerciseName) ==
  LET hits == {i \in DOMAIN workout.exercises :
                 workout.exercises[i].name = exerciseName}
  IN IF hits = {} THEN Null
     ELSE workout.exercises[CHOOSE i \in hits : \A j \in hits : i <= j]

\* getLastPerformance: the sets of the first workout, most recent first,
\* that has an exercise of that name (an array, even an empty one, is
\* truthy); Null when there is none.  The array returned is boxed as
\* [sets |-> array].
getLastPerformance(exerciseName) ==
  LET workouts == SortByCompletedAtDesc(getWorkoutHistory)
      hits == {i \in DOMAIN workouts :
                 FindExercise(workouts[i], exerciseName) # Null}
  IN IF hits = {} THEN Null
     ELSE [sets |-> FindExercise(workouts[CHOOSE i \in hits : \A j \in hits : i <= j],
                                 exerciseName).sets]

(***************************************************************************)
(* workout.js: persistence of the active workout                           *)
(***************************************************************************)
\* variant: the UI-only expanded flag is left out of the snapshot
JSONRoundTrip_DropsExpanded(workout) ==
  [workout EXCEPT !.exercises =
     [i \in DOMAIN workout.exercises |->
        [workout.exercises[i] EXCEPT !.expanded = FALSE,
                                     !.sets = JSONProperty(@)]]]

\* JSON.parse(JSON.stringify(workout))
JSONRoundTrip(workout) ==
  [workout EXCEPT !.exercises =
     [i \in DOMAIN workout.exercises |->
        [workout.exercises[i] EXCEPT
           !.sets = JSONProperty(@),
           !.loggedSets =
              [k \in DOMAIN workout.exercises[i].loggedSets |->
                 [workout.exercises[i].loggedSets[k] EXCEPT
                    !.weight = JSONProperty(@), !.reps = JSONProperty(@)]]]]]

\* variant: the snapshot is not written
saveWorkoutState_Skipped(workout) == activeState

\* saveWorkoutState: the value under the active-workout key afterwards
saveWorkoutState(workout) ==
  IF workout = Null THEN activeState ELSE JSONRoundTrip(workout)

\* loadWorkoutState: the stored snapshot; null when the key is missing or
\* JSON.parse throws
loadWorkoutState ==
  IF activeState = Unparsable THEN Null ELSE activeState

\* clearWorkoutState: the value under the active-workout key afterwards
clearWorkoutState == Null

(***************************************************************************)
(* workout.js: the timer.  A timer state is the handle variable and the    *)
(* number of interval callbacks scheduled.                                 *)
(***************************************************************************)
Timer == [workoutTimer |-> workoutTimer, intervals |-> intervals]

\* variant: the handle is forgotten without clearInterval
stopTimer_KeepsInterval(tm) ==
  [workoutTimer |-> FALSE, intervals |-> tm.intervals]

\* stopTimer: if (workoutTimer) { clearInterval(workoutTimer); workoutTimer = null }
stopTimer(tm) ==
  IF tm.workoutTimer
  THEN [workoutTimer |-> FALSE, intervals |-> tm.intervals - 1]
  ELSE tm

\* variant: a new interval is scheduled without cancelling the old one
startTimer_NoStop(tm) ==
  [workoutTimer |-> TRUE, intervals |-> tm.intervals + 1]

\* startTimer: stopTimer(), then workoutTimer = setInterval(...)
startTimer(tm) ==
  LET stopped == stopTimer(tm)
  IN [workoutTimer |-> TRUE, intervals |-> stopped.intervals + 1]

\* renderActiveWorkout ends by calling startTimer
renderActiveWorkout(tm) == startTimer(tm)

SetTimer(tm) ==
  /\ workoutTimer' = tm.workoutTimer
  /\ intervals' = tm.intervals


(***************************************************************************)
(* workout.js: building and changing the session object                    *)
(***************************************************************************)
\* variant: the fallback of two sets is missing
NewExercise_NoDefault(ex) ==
  LET lastPerf == getLastPerformance(ex.exercise)
      targetSets == parseInt(ex.sets).n
      prefilled(idx) == lastPerf # Null /\ idx \in DOMAIN lastPerf.sets
  IN [name |-> ex.exercise,
      sets |-> ex.sets,
      completed |-> FALSE,
      expanded |-> FALSE,
      loggedSets |->
        [idx \in 1..targetSets |->
           [setNumber |-> idx,
            weight |-> IF prefilled(idx) THEN lastPerf.sets[idx].weight ELSE EmptyStr,
            reps |-> IF prefilled(idx) THEN lastPerf.sets[idx].reps ELSE EmptyStr,
            logged |-> FALSE]]]

\* the exercise object startNewWorkout builds from a catalog entry
NewExercise(ex) ==
  LET lastPerf == getLastPerformance(ex.exercise)
      targetSets == OrElse(parseInt(ex.sets), Num(2)).n
      prefilled(idx) == lastPerf # Null /\ idx \in DOMAIN lastPerf.sets
  IN [name |-> ex.exercise,
      sets |-> ex.sets,
      completed |-> FALSE,
      expanded |-> FALSE,
      loggedSets |->
        [idx \in 1..targetSets |->
           [setNumber |-> idx,
            weight |-> IF prefilled(idx) THEN lastPerf.sets[idx].weight ELSE EmptyStr,
            reps |-> IF prefilled(idx) THEN lastPerf.sets[idx].reps ELSE EmptyStr,
            logged |-> FALSE]]]

\* variant: the session is labelled with the first day type of the week
NewWorkout_FirstDay(week, dayType, dayData) ==
  [week |-> week,
   dayType |-> getWeek(week).days[1].day_type,
   startedAt |-> Timestamp,
   elapsedSeconds |-> 0,
   exercises |-> [i \in DOMAIN dayData.exercises |->
                    NewExercise(dayData.exercises[i])]]

\* the session object startNewWorkout builds
NewWorkout(week, dayType, dayData) ==
  [week |-> week,
   dayType |-> dayType,
   startedAt |-> Timestamp,
   elapsedSeconds |-> 0,
   exercises |-> [i \in DOMAIN dayData.exercises |->
                    NewExercise(dayData.exercises[i])]]

\* variant: the completed flag is read instead of the sets
AllLogged_Stale(exercise) == exercise.completed

\* exercise.loggedSets.every(s => s.logged)
AllLogged(exercise) ==
  \A k \in DOMAIN exercise.loggedSets : exercise.loggedSets[k].logged

\* variant: the exercise is completed by any logged set
MarkLogged_AlwaysCompletes(workout, e, s) ==
  [workout EXCEPT !.exercises[e].loggedSets[s].logged = TRUE,
                  !.exercises[e].completed = TRUE]

\* logSet on a set that passed the validation
MarkLogged(workout, e, s) ==
  LET marked == [workout EXCEPT !.exercises[e].loggedSets[s].logged = TRUE]
  IN IF AllLogged(marked.exercises[e])
     THEN [marked EXCEPT !.exercises[e].completed = TRUE]
     ELSE marked

\* variant: the completion of the exercise is not revoked
Reopen_KeepsCompleted(workout, e, s) ==
  [workout EXCEPT !.exercises[e].loggedSets[s].logged = FALSE]

\* the assignments of editSet
Reopen(workout, e, s) ==
  [workout EXCEPT !.exercises[e].loggedSets[s].logged = FALSE,
                  !.exercises[e].completed = FALSE]

\* currentWorkout.exercises.filter(ex => ex.completed).length
CompletedCount(workout) ==
  Cardinality({i \in DOMAIN workout.exercises : workout.exercises[i].completed})

TotalCount(workout) == Len(workout.exercises)

\* variant: the filter on logged is missing
LoggedSetsData_AllSets(exercise) ==
  [k \in DOMAIN exercise.loggedSets |->
     [weight |-> JSONValue(parseFloat(exercise.loggedSets[k].weight)),
      reps |-> JSONValue(parseInt(exercise.loggedSets[k].reps))]]

\* loggedSets.filter(s => s.logged).map(s => ({weight: parseFloat(s.weight),
\* reps: parseInt(s.reps)})), as stored by JSON.stringify
LoggedSetsData(exercise) ==
  LET kept == SelectSeq(exercise.loggedSets, LAMBDA x : x.logged)
  IN [k \in DOMAIN kept |->
        [weight |-> JSONValue(parseFloat(kept[k].weight)),
         reps |-> JSONValue(parseInt(kept[k].reps))]]

\* the workoutData finishWorkout hands to saveWorkout
WorkoutData(workout) ==
  [exercises |-> [i \in DOMAIN workout.exercises |->
                    [name |-> workout.exercises[i].name,
                     sets |-> LoggedSetsData(workout.exercises[i])]]]

\* the (exercise, set) rows of the rendered workout
Rows(workout) ==
  UNION { { <<e, s>> : s \in DOMAIN workout.exercises[e].loggedSets } :
          e \in DOMAIN workout.exercises }

\* variant: every row carries inputs and buttons
OpenRows_All ==
  IF screen # "active" THEN {} ELSE Rows(currentWorkout)

\* renderSetRow: the rows that carry inputs, +/- buttons and a Log button
OpenRows ==
  IF screen # "active" THEN {}
  ELSE {r \in Rows(currentWorkout) :
          ~currentWorkout.exercises[r[1]].loggedSets[r[2]].logged}

\* renderSetRow: the rows that carry an Edit button
LoggedRows ==
  IF screen # "active" THEN {}
  ELSE {r \in Rows(currentWorkout) :
          currentWorkout.exercises[r[1]].loggedSets[r[2]].logged}

(***************************************************************************)
(* History variables                                                       *)
(***************************************************************************)
Op(name) ==
  [op |-> name, e |-> 0, s |-> 0, confirm |-> "none", write |-> "none",
   alert |-> FALSE, relog |-> FALSE]

RowOp(name, e, s) == [Op(name) EXCEPT !.e = e, !.s = s]

\* the label of a handler called with a week and a day type
SelOp(name, week, dayType) ==
  [op |-> name, e |-> 0, s |-> 0, confirm |-> "none", write |-> "none",
   alert |-> FALSE, relog |-> FALSE, week |-> week, dayType |-> dayType]

\* the answer given to a window.confirm dialog that was shown
Answer(confirm) == IF confirm THEN "yes" ELSE "no"

Min(a, b) == IF a <= b THEN a ELSE b

\* an event that is no completed initWorkoutUI call
OtherEvent(label) ==
  /\ lastOp' = label
  /\ initRuns' = 0

\* an event that completes an initWorkoutUI call while `others` calls are
\* still waiting for getDay: a call follows the previous one only when no
\* call overlaps it
InitCompleted(label, others) ==
  /\ lastOp' = label
  /\ initRuns' = IF others > 0 THEN 0 ELSE Min(initRuns + 1, 2)

(***************************************************************************)
(* Initial state: a fresh page load.  The device holds no active workout;  *)
(* its history is empty or holds the record of a workout finished on an    *)
(* earlier day, as saveWorkout stores it.                                  *)
(***************************************************************************)
EarlierRecord ==
  LET ts == [date |-> -1, seq |-> 0]
  IN [key |-> workoutKey(1, "Upper", ts),
      week |-> 1,
      dayType |-> "Upper",
      completedAt |-> ts,
      exercises |-> << [name |-> "Bench",
                        sets |-> << [weight |-> Num(5), reps |-> Num(1)] >>],
                       [name |-> "Row", sets |-> << >>] >>]

StoredHistories == { << >>, << EarlierRecord >> }

Init ==
  /\ currentWorkout = Null
  /\ workoutTimer = FALSE
  /\ intervals = 0
  /\ elapsedSeconds = 0
  /\ activeState = Null
  /\ history \in StoredHistories
  /\ pendingWorkout = Null
  /\ inflight = EmptyBag
  /\ screen = "blank"
  /\ now = 0
  /\ today = 0
  /\ currentWeek = JNull
  /\ lastOp = Op("load")
  /\ initRuns = 0

(***************************************************************************)
(* program.js startWorkout: the Start Workout button of the Program tab    *)
(* stores the selection; the tab switch it triggers reaches initWorkoutUI  *)
(* through an awaited dynamic import, as a later event (InitWorkoutUI).    *)
(***************************************************************************)
StartWorkout(sel) ==
  /\ pendingWorkout' = sel
  /\ OtherEvent(SelOp("startWorkout", sel.week, sel.dayType))
  /\ UNCHANGED << currentWorkout, workoutTimer, intervals, elapsedSeconds,
                  activeState, history, inflight, screen, now, today,
                  currentWeek >>

(***************************************************************************)
(* workout.js initWorkoutUI up to its first suspension: resume the stored  *)
(* workout, or call startNewWorkout (which suspends at await getDay), or   *)
(* show the empty state.                                                   *)
(***************************************************************************)
\* variant: a pending selection takes precedence over the stored workout
InitBranch_PendingFirst(savedState, pending) ==
  IF pending # Null THEN "start"
  ELSE IF savedState # Null THEN "resume"
  ELSE "empty"

\* the if / else if / else of initWorkoutUI
InitBranch(savedState, pending) ==
  IF savedState # Null THEN "resume"
  ELSE IF pending # Null THEN "start"
  ELSE "empty"

\* variant: a resumed workout starts counting from zero
ResumedElapsed_Zero(savedState) == 0

\* savedState.elapsedSeconds || 0
ResumedElapsed(savedState) ==
  IF savedState.elapsedSeconds # 0 THEN savedState.elapsedSeconds ELSE 0

\* initWorkoutUI reading the pending selection `pending`, with at most
\* `limit` calls suspended at one time, recorded under `label`
InitWorkoutUIWith(pending, limit, label) ==
  LET savedState == loadWorkoutState
      branch == InitBranch(savedState, pending)
  IN \/ /\ branch = "resume"
        /\ currentWorkout' = savedState
        /\ elapsedSeconds' = ResumedElapsed(savedState)
        /\ SetTimer(renderActiveWorkout(Timer))
        /\ screen' = "active"
        /\ pendingWorkout' = pending
        /\ InitCompleted(label, BagCardinality(inflight))
        /\ UNCHANGED << activeState, history, inflight, now, today,
                        currentWeek >>
     \/ /\ branch = "start"
        /\ BagCardinality(inflight) < limit
        /\ inflight' = inflight (+) SetToBag({pending})
        /\ pendingWorkout' = pending
        /\ lastOp' = label
        /\ UNCHANGED << currentWorkout, workoutTimer, intervals, elapsedSeconds,
                        activeState, history, screen, now, today,
                        currentWeek,
                        initRuns >>
     \/ /\ branch = "empty"
        /\ screen' = "empty"
        /\ pendingWorkout' = pending
        /\ InitCompleted(label, BagCardinality(inflight))
        /\ UNCHANGED << currentWorkout, workoutTimer, intervals, elapsedSeconds,
                        activeState, history, inflight, now, today,
                        currentWeek >>

InitWorkoutUI ==
  InitWorkoutUIWith(pendingWorkout, MaxInflight, Op("initWorkoutUI"))

(***************************************************************************)
(* workout.js startNewWorkout from the point where getDay has answered,    *)
(* followed by the removeItem with which initWorkoutUI ends.               *)
(***************************************************************************)
StartNewWorkout(sel) ==
  /\ BagIn(sel, inflight)
  /\ inflight' = inflight (-) SetToBag({sel})
  /\ pendingWorkout' = Null
  /\ InitCompleted(Op("startNewWorkout"), BagCardinality(inflight) - 1)
  /\ LET dayData == getDay(sel.week, sel.dayType)
     IN IF dayData = Null
        THEN /\ screen' = "empty"
             /\ UNCHANGED << currentWorkout, workoutTimer, intervals,
                             elapsedSeconds, activeState, history, now, today,
                  currentWeek >>
        ELSE /\ now < MaxNow
             /\ currentWorkout' = NewWorkout(sel.week, sel.dayType, dayData)
             /\ elapsedSeconds' = 0
             /\ activeState' = saveWorkoutState(currentWorkout')
             /\ SetTimer(startTimer(renderActiveWorkout(Timer)))
             /\ screen' = "active"
             /\ now' = now + 1
             /\ UNCHANGED << history, today,
                  currentWeek >>

(***************************************************************************)
(* workout.js handlers of the rendered workout                             *)
(***************************************************************************)
\* handleInputChange on the weight or reps input of an open row
HandleInputChange(e, s, field, value) ==
  /\ <<e, s>> \in OpenRows
  /\ currentWorkout' =
       [currentWorkout EXCEPT !.exercises[e].loggedSets[s][field] = value]
  /\ activeState' = saveWorkoutState(currentWorkout')
  /\ OtherEvent(RowOp("handleInputChange", e, s))
  /\ UNCHANGED << workoutTimer, intervals, elapsedSeconds, history,
                  pendingWorkout, inflight, screen, now, today,
                  currentWeek >>

\* adjustWeight: the +/- buttons write the new value into the input and
\* dispatch an input event
AdjustWeight(e, s, delta) ==
  /\ <<e, s>> \in OpenRows
  /\ LET input == InputValue(currentWorkout.exercises[e].loggedSets[s].weight)
         currentValue == OrElse(parseFloat(input), Num(0)).n
         newValue == Max(0, currentValue + delta)
     IN /\ newValue <= MaxWeight
        /\ HandleInputChange(e, s, "weight", Str(newValue))

\* adjustReps
AdjustReps(e, s, delta) ==
  /\ <<e, s>> \in OpenRows
  /\ LET input == InputValue(currentWorkout.exercises[e].loggedSets[s].reps)
         currentValue == OrElse(parseInt(input), Num(0)).n
         newValue == Max(0, currentValue + delta)
     IN /\ newValue <= MaxReps
        /\ HandleInputChange(e, s, "reps", Str(newValue))

\* variant: the exercise is expanded whatever it was
Toggled_Expands(workout, e) ==
  [workout EXCEPT !.exercises[e].expanded = TRUE]

\* exercise.expanded = !exercise.expanded
Toggled(workout, e) ==
  [workout EXCEPT !.exercises[e].expanded = ~@]

\* toggleExercise
ToggleExercise(e) ==
  /\ screen = "active"
  /\ e \in DOMAIN currentWorkout.exercises
  /\ currentWorkout' = Toggled(currentWorkout, e)
  /\ activeState' = saveWorkoutState(currentWorkout')
  /\ SetTimer(renderActiveWorkout(Timer))
  /\ OtherEvent(RowOp("toggleExercise", e, 0))
  /\ UNCHANGED << elapsedSeconds, history, pendingWorkout, inflight, screen,
                  now, today,
                  currentWeek >>

\* the handler that ran last was editSet on this row
Reopened(e, s) == lastOp.op = "editSet" /\ lastOp.e = e /\ lastOp.s = s

\* variant: only the weight is validated
IncompleteInput_WeightOnly(set) == ~Truthy(set.weight)

\* the validation of logSet: !set.weight || !set.reps
IncompleteInput(set) == ~Truthy(set.weight) \/ ~Truthy(set.reps)

\* logSet
LogSet(e, s) ==
  /\ <<e, s>> \in OpenRows
  /\ IF IncompleteInput(currentWorkout.exercises[e].loggedSets[s])
     THEN /\ OtherEvent([RowOp("logSet", e, s) EXCEPT
                           !.alert = TRUE, !.relog = Reopened(e, s)])
          /\ UNCHANGED << currentWorkout, workoutTimer, intervals,
                          elapsedSeconds, activeState, history, pendingWorkout,
                          inflight, screen, now, today,
                  currentWeek >>
     ELSE /\ OtherEvent([RowOp("logSet", e, s) EXCEPT
                           !.relog = Reopened(e, s)])
          /\ currentWorkout' = MarkLogged(currentWorkout, e, s)
          /\ activeState' = saveWorkoutState(currentWorkout')
          /\ SetTimer(renderActiveWorkout(Timer))
          /\ UNCHANGED << elapsedSeconds, history, pendingWorkout, inflight,
                          screen, now, today,
                  currentWeek >>

\* editSet
EditSet(e, s) ==
  /\ <<e, s>> \in LoggedRows
  /\ currentWorkout' = Reopen(currentWorkout, e, s)
  /\ activeState' = saveWorkoutState(currentWorkout')
  /\ SetTimer(renderActiveWorkout(Timer))
  /\ OtherEvent(RowOp("editSet", e, s))
  /\ UNCHANGED << elapsedSeconds, history, pendingWorkout, inflight, screen,
                  now, today,
                  currentWeek >>

\* the setInterval callback of startTimer
Tick ==
  /\ intervals > 0
  /\ elapsedSeconds < MaxElapsed
  /\ elapsedSeconds' = elapsedSeconds + 1
  /\ IF currentWorkout # Null
     THEN /\ currentWorkout' =
               [currentWorkout EXCEPT !.elapsedSeconds = elapsedSeconds']
          /\ activeState' = saveWorkoutState(currentWorkout')
     ELSE UNCHANGED << currentWorkout, activeState >>
  /\ OtherEvent(Op("tick"))
  /\ UNCHANGED << workoutTimer, intervals, history, pendingWorkout, inflight,
                  screen, now, today,
                  currentWeek >>

(***************************************************************************)
(* workout.js finishWorkout                                                *)
(***************************************************************************)
\* formatTime: hours, minutes and seconds of the text H:MM:SS or M:SS (the
\* hours are written only when positive)
formatTime(seconds) ==
  [hrs |-> seconds \div 3600,
   mins |-> (seconds % 3600) \div 60,
   secs |-> seconds % 60]

\* showWorkoutSummary(completed, total): the text it writes, seconds being
\* the value of the elapsedSeconds variable when it runs
showWorkoutSummary(completed, total, seconds) ==
  [completed |-> completed, total |-> total, duration |-> formatTime(seconds)]

\* the label of a finishWorkout that has shown a summary
SummaryOp(label, summary) ==
  [op |-> label.op, e |-> label.e, s |-> label.s, confirm |-> label.confirm,
   write |-> "ok", alert |-> FALSE, relog |-> label.relog,
   summary |-> summary]

\* variant: a partial finish is never gated
NeedsConfirmation_Never(workout) == FALSE

\* completedCount < totalCount: the confirm dialog is shown
NeedsConfirmation(workout) == CompletedCount(workout) < TotalCount(workout)

\* variant: the stored snapshot is not removed
FinishSaved_KeepsSnapshot ==
  [history |-> saveWorkout(currentWorkout.week, currentWorkout.dayType,
                           WorkoutData(currentWorkout)),
   activeState |-> activeState,
   currentWorkout |-> Null,
   elapsedSeconds |-> 0,
   screen |-> "summary",
   summary |-> showWorkoutSummary(CompletedCount(currentWorkout),
                                  TotalCount(currentWorkout), 0)]

\* the try block after a successful saveWorkout: the new history, the state
\* cleared, elapsedSeconds reset, and then the summary shown, which reads
\* the counts computed at the start of finishWorkout and the elapsedSeconds
\* variable as it is by then
FinishSaved ==
  LET reset == 0
  IN [history |-> saveWorkout(currentWorkout.week, currentWorkout.dayType,
                              WorkoutData(currentWorkout)),
      activeState |-> clearWorkoutState,
      currentWorkout |-> Null,
      elapsedSeconds |-> reset,
      screen |-> "summary",
      summary |-> showWorkoutSummary(CompletedCount(currentWorkout),
                                     TotalCount(currentWorkout), reset)]

\* variant: the state is cleared whether or not the save succeeded
FinishFailed_ClearsState ==
  [history |-> history,
   activeState |-> clearWorkoutState,
   currentWorkout |-> Null,
   elapsedSeconds |-> 0,
   screen |-> "summary"]

\* the catch block after saveWorkout has thrown: an alert, nothing else
FinishFailed ==
  [history |-> history,
   activeState |-> activeState,
   currentWorkout |-> currentWorkout,
   elapsedSeconds |-> elapsedSeconds,
   screen |-> screen]

\* finishWorkout.  confirm is the answer to window.confirm (asked only when
\* some exercise is not completed), writeOk whether setItem in saveWorkout
\* succeeds.
FinishWorkout(confirm, writeOk) ==
  /\ screen = "active"
  /\ currentWorkout # Null
  /\ LET asked == NeedsConfirmation(currentWorkout)
         label == [Op("finishWorkout") EXCEPT
                     !.confirm = IF asked THEN Answer(confirm) ELSE "none"]
     IN IF asked /\ ~confirm
        THEN /\ OtherEvent(label)
             /\ UNCHANGED << currentWorkout, workoutTimer, intervals,
                             elapsedSeconds, activeState, history,
                             pendingWorkout, inflight, screen, now, today,
                  currentWeek >>
        ELSE LET after == IF writeOk THEN FinishSaved ELSE FinishFailed
             IN /\ writeOk => now < MaxNow
                /\ SetTimer(stopTimer(Timer))
                /\ history' = after.history
                /\ activeState' = after.activeState
                /\ currentWorkout' = after.currentWorkout
                /\ elapsedSeconds' = after.elapsedSeconds
                /\ screen' = after.screen
                /\ now' = IF writeOk THEN now + 1 ELSE now
                /\ OtherEvent(IF writeOk
                              THEN SummaryOp(label, after.summary)
                              ELSE [label EXCEPT !.write = "failed",
                                                 !.alert = TRUE])
                /\ UNCHANGED << pendingWorkout, inflight, today,
                  currentWeek >>

(***************************************************************************)
(* workout.js cancelWorkout                                                *)
(***************************************************************************)
\* variant: the answer to the dialog is ignored
CancelProceeds_Always(confirm) == TRUE

\* if (confirm)
CancelProceeds(confirm) == confirm

\* variant: the timer is left running
CancelledTimer_KeepsRunning == Timer

\* the timer after the body of if (confirm)
CancelledTimer == stopTimer(Timer)

\* cancelWorkout.  confirm is the answer to window.confirm.
CancelWorkout(confirm) ==
  /\ screen = "active"
  /\ OtherEvent([Op("cancelWorkout") EXCEPT !.confirm = Answer(confirm)])
  /\ IF CancelProceeds(confirm)
     THEN /\ SetTimer(CancelledTimer)
          /\ activeState' = clearWorkoutState
          /\ currentWorkout' = Null
          /\ elapsedSeconds' = 0
          /\ screen' = "empty"
          /\ UNCHANGED << history, pendingWorkout, inflight, now, today,
                  currentWeek >>
     ELSE UNCHANGED << currentWorkout, workoutTimer, intervals, elapsedSeconds,
                       activeState, history, pendingWorkout, inflight, screen,
                       now, today,
                  currentWeek >>

(***************************************************************************)
(* Environment                                                             *)
(***************************************************************************)
\* The page is reloaded: the module state of workout.js is re-initialised,
\* scheduled callbacks and suspended calls are gone, localStorage and
\* sessionStorage stay.
Reload ==
  /\ currentWorkout' = Null
  /\ workoutTimer' = FALSE
  /\ intervals' = 0
  /\ elapsedSeconds' = 0
  /\ inflight' = EmptyBag
  /\ screen' = "blank"
  /\ OtherEvent(Op("reload"))
  /\ UNCHANGED << activeState, history, pendingWorkout, now, today,
                  currentWeek >>

\* increments the buttons apply: + of a weight input, + and - of a reps
\* input (the - of a weight input has the same clamp at 0 as that of reps)
WeightDeltas == {5}

RepsDeltas == {1, -1}

Next ==
  \/ \E sel \in Selections : StartWorkout(sel)
  \/ InitWorkoutUI
  \/ \E sel \in Selections : StartNewWorkout(sel)
  \/ \E r \in OpenRows, v \in TypedWeights : HandleInputChange(r[1], r[2], "weight", v)
  \/ \E r \in OpenRows, v \in TypedReps : HandleInputChange(r[1], r[2], "reps", v)
  \/ \E r \in OpenRows, delta \in WeightDeltas : AdjustWeight(r[1], r[2], delta)
  \/ \E r \in OpenRows, delta \in RepsDeltas : AdjustReps(r[1], r[2], delta)
  \/ \E r \in OpenRows : LogSet(r[1], r[2])
  \/ \E r \in LoggedRows : EditSet(r[1], r[2])
  \/ \E e \in 1..2 : ToggleExercise(e)
  \/ Tick
  \/ \E confirm \in BOOLEAN, writeOk \in BOOLEAN : FinishWorkout(confirm, writeOk)
  \/ \E confirm \in BOOLEAN : CancelWorkout(confirm)
  \/ Reload

Spec == Init /\ [][Next]_vars

(***************************************************************************)
(* Starting workouts on a device with the history of earlier days.  The    *)
(* history was written by saveWorkout on earlier days and may have been    *)
(* put in any key order by importData (storage.js 116-147); the pending    *)
(* selection may name a day the catalog does not have (a selection left in *)
(* sessionStorage by another version of the catalog).  The user starts and *)
(* cancels workouts and reloads the page.                                  *)
(***************************************************************************)
\* a Full Body workout finished two days ago, both sets of Bench logged
OlderRecord ==
  LET ts == [date |-> -2, seq |-> 0]
  IN [key |-> workoutKey(1, "Full Body", ts),
      week |-> 1,
      dayType |-> "Full Body",
      completedAt |-> ts,
      exercises |-> << [name |-> "Bench",
                        sets |-> << [weight |-> Num(10), reps |-> Num(2)],
                                    [weight |-> Num(15), reps |-> Num(3)] >>] >>]

\* an Upper workout finished three days ago, only Row logged
OldestRecord ==
  LET ts == [date |-> -3, seq |-> 0]
  IN [key |-> workoutKey(1, "Upper", ts),
      week |-> 1,
      dayType |-> "Upper",
      completedAt |-> ts,
      exercises |-> << [name |-> "Bench", sets |-> << >>],
                       [name |-> "Row",
                        sets |-> << [weight |-> Num(20), reps |-> Num(4)] >>] >>]

StoredRecords == { EarlierRecord, OlderRecord, OldestRecord }

\* histories of up to two of these records, in any key order
ImportedHistories ==
  { << >> } \cup { << r >> : r \in StoredRecords }
            \cup { << p[1], p[2] >> : p \in { x \in StoredRecords \X StoredRecords :
                                                  x[1] # x[2] } }

\* selections the catalog has no day for: a missing day type, a missing week
MissingSelections ==
  { [week |-> 1, dayType |-> "Lower"],
    [week |-> 2, dayType |-> "Upper"] }

InitStart ==
  /\ currentWorkout = Null
  /\ workoutTimer = FALSE
  /\ intervals = 0
  /\ elapsedSeconds = 0
  /\ activeState = Null
  /\ history \in ImportedHistories
  /\ pendingWorkout = Null
  /\ inflight = EmptyBag
  /\ screen = "blank"
  /\ now = 0
  /\ today = 0
  /\ currentWeek = JNull
  /\ lastOp = Op("load")
  /\ initRuns = 0

NextStart ==
  \/ \E sel \in Selections \cup MissingSelections : StartWorkout(sel)
  \/ InitWorkoutUI
  \/ \E sel \in Selections \cup MissingSelections : StartNewWorkout(sel)
  \/ \E confirm \in BOOLEAN : CancelWorkout(confirm)
  \/ Reload

SpecStart == InitStart /\ [][NextStart]_vars

(***************************************************************************)
(* Finishing workouts on a device whose history may already hold a record  *)
(* written today: an Upper workout finished earlier today, before the page *)
(* was loaded.  The user starts workouts, types and logs sets, reopens     *)
(* them, finishes, cancels and reloads.                                    *)
(***************************************************************************)
\* an Upper workout finished earlier today, only Bench logged
TodayRecord ==
  LET ts == [date |-> 0, seq |-> -1]
  IN [key |-> workoutKey(1, "Upper", ts),
      week |-> 1,
      dayType |-> "Upper",
      completedAt |-> ts,
      exercises |-> << [name |-> "Bench",
                        sets |-> << [weight |-> Num(5), reps |-> Num(1)] >>],
                       [name |-> "Row", sets |-> << >>] >>]

FinishedRecords == { TodayRecord, EarlierRecord, OlderRecord }

\* histories of up to two of these records, in any key order
FinishedHistories ==
  { << >> } \cup { << r >> : r \in FinishedRecords }
            \cup { << p[1], p[2] >> : p \in { x \in FinishedRecords \X FinishedRecords :
                                                  x[1] # x[2] } }

InitHistory ==
  /\ currentWorkout = Null
  /\ workoutTimer = FALSE
  /\ intervals = 0
  /\ elapsedSeconds = 0
  /\ activeState = Null
  /\ history \in FinishedHistories
  /\ pendingWorkout = Null
  /\ inflight = EmptyBag
  /\ screen = "blank"
  /\ now = 0
  /\ today = 0
  /\ currentWeek = JNull
  /\ lastOp = Op("load")
  /\ initRuns = 0

NextHistory ==
  \/ \E sel \in Selections : StartWorkout(sel)
  \/ InitWorkoutUI
  \/ \E sel \in Selections : StartNewWorkout(sel)
  \/ \E r \in OpenRows, v \in TypedWeights : HandleInputChange(r[1], r[2], "weight", v)
  \/ \E r \in OpenRows, v \in TypedReps : HandleInputChange(r[1], r[2], "reps", v)
  \/ \E r \in OpenRows : LogSet(r[1], r[2])
  \/ \E r \in LoggedRows : EditSet(r[1], r[2])
  \/ \E confirm \in BOOLEAN, writeOk \in BOOLEAN : FinishWorkout(confirm, writeOk)
  \/ \E confirm \in BOOLEAN : CancelWorkout(confirm)
  \/ Reload

SpecHistory == InitHistory /\ [][NextHistory]_vars

(***************************************************************************)
(* program.js: completion of the days of the program                       *)
(***************************************************************************)
\* variant: the week is not compared
getWorkoutCompletion_AnyWeek(weekNum, dayType) ==
  LET h == getWorkoutHistory
      hits == {i \in DOMAIN h : h[i].dayType = dayType}
  IN IF hits = {} THEN Null
     ELSE LET i == CHOOSE x \in hits : \A y \in hits : x <= y
          IN [completed |-> TRUE, date |-> h[i].completedAt, key |-> h[i].key]

\* getWorkoutCompletion: the first entry, in key order, with that week and
\* dayType, or null
getWorkoutCompletion(weekNum, dayType) ==
  LET h == getWorkoutHistory
      hits == {i \in DOMAIN h : h[i].week = weekNum /\ h[i].dayType = dayType}
  IN IF hits = {} THEN Null
     ELSE LET i == CHOOSE x \in hits : \A y \in hits : x <= y
          IN [completed |-> TRUE, date |-> h[i].completedAt, key |-> h[i].key]

\* variant: the quotient is rounded down
MathRound_Floor(num, den) == num \div den

\* Math.round(num / den) for num >= 0 and den > 0: the nearest integer, a
\* half rounded up
MathRound(num, den) == (2 * num + den) \div (2 * den)

\* getWeekCompletionStats
getWeekCompletionStats(weekNum) ==
  LET week == getWeek(weekNum)
  IN IF week = Null
     THEN [total |-> 0, completed |-> 0, percentage |-> 0]
     ELSE LET total == Len(week.days)
              completed ==
                Cardinality({i \in DOMAIN week.days :
                               getWorkoutCompletion(weekNum, week.days[i].day_type) # Null})
          IN [total |-> total,
              completed |-> completed,
              percentage |-> IF total > 0 THEN MathRound(completed * 100, total)
                             ELSE 0]

(***************************************************************************)
(* progress.js: the series of sessions of each exercise and its summary    *)
(***************************************************************************)
\* the number a stored weight or reps is in an arithmetic expression: null
\* counts as 0
ToNumber(v) == IF v.t = "num" THEN v.n ELSE 0

\* Math.max(...ns) of a non-empty list of numbers
MathMax(ns) ==
  CHOOSE m \in {ns[i] : i \in DOMAIN ns} : \A i \in DOMAIN ns : m >= ns[i]

\* Math.max(...exercise.sets.map(s => s.weight || 0))
maxWeight(sets) ==
  MathMax([k \in DOMAIN sets |-> OrElse(sets[k].weight, Num(0)).n])

\* variant: the repetitions are left out of the volume
RECURSIVE totalVolume_WeightOnly(_)
totalVolume_WeightOnly(sets) ==
  IF sets = << >> THEN 0
  ELSE totalVolume_WeightOnly(SubSeq(sets, 1, Len(sets) - 1))
         + ToNumber(sets[Len(sets)].weight)

\* exercise.sets.reduce((sum, s) => sum + (s.weight * s.reps), 0)
RECURSIVE totalVolume(_)
totalVolume(sets) ==
  IF sets = << >> THEN 0
  ELSE totalVolume(SubSeq(sets, 1, Len(sets) - 1))
         + ToNumber(sets[Len(sets)].weight) * ToNumber(sets[Len(sets)].reps)

\* the session entries one workout adds to the list of an exercise name:
\* one for each of its exercises of that name with a non-empty sets array
SessionsOf(workout, exerciseName) ==
  LET kept == SelectSeq(workout.exercises,
                        LAMBDA ex : ex.name = exerciseName /\ ex.sets # << >>)
  IN [k \in DOMAIN kept |->
        [date |-> workout.completedAt,
         week |-> workout.week,
         dayType |-> workout.dayType,
         sets |-> kept[k].sets,
         maxWeight |-> maxWeight(kept[k].sets),
         totalVolume |-> totalVolume(kept[k].sets)]]

\* the sessions pushed for an exercise name by Object.values(history).forEach
RECURSIVE Pushed(_, _)
Pushed(h, exerciseName) ==
  IF h = << >> THEN << >>
  ELSE Pushed(SubSeq(h, 1, Len(h) - 1), exerciseName)
         \o SessionsOf(h[Len(h)], exerciseName)

\* insert s into a list sorted by date, after every element that is not
\* later than it (Array.prototype.sort is stable)
RECURSIVE InsertByDate(_, _)
InsertByDate(sorted, s) ==
  IF sorted = << >> THEN << s >>
  ELSE IF Earlier(s.date, Head(sorted).date)
       THEN << s >> \o sorted
       ELSE << Head(sorted) >> \o InsertByDate(Tail(sorted), s)

\* variant: the sessions stay in the order of the history keys
SortByDateAsc_Unsorted(sessions) == sessions

\* exercise.sessions.sort((a, b) => a.date - b.date)
RECURSIVE SortByDateAsc(_)
SortByDateAsc(sessions) ==
  IF sessions = << >> THEN << >>
  ELSE InsertByDate(SortByDateAsc(SubSeq(sessions, 1, Len(sessions) - 1)),
                    sessions[Len(sessions)])

\* the exercise names of the records of a history
ExerciseNames(h) ==
  UNION { { h[i].exercises[e].name : e \in DOMAIN h[i].exercises } : i \in DOMAIN h }

\* aggregateExerciseData: exerciseMap, a mapping from the names that got a
\* session to { name, sessions }
aggregateExerciseData ==
  LET h == getWorkoutHistory
      names == {n \in ExerciseNames(h) : Pushed(h, n) # << >>}
  IN [n \in names |-> [name |-> n, sessions |-> SortByDateAsc(Pushed(h, n))]]

\* variant: the record is taken to be the weight of the latest session
personalRecord_Latest(sessions) == sessions[Len(sessions)].maxWeight

\* Math.max(...exercise.sessions.map(s => s.maxWeight))
personalRecord(sessions) ==
  MathMax([k \in DOMAIN sessions |-> sessions[k].maxWeight])

\* a decimal string with one fractional digit, held as a number of tenths
Fixed1(tenths) == [t |-> "fixed", tenths |-> tenths]

\* variant: the digits after the first decimal are cut off
toFixed1_Truncated(num, den) ==
  Fixed1((IF num < 0 THEN -1 ELSE 1)
           * ((10 * (IF num < 0 THEN -num ELSE num)) \div den))

\* (num / den).toFixed(1) for den > 0: the sign, then the magnitude
\* rounded to the nearest tenth, a half rounded up
toFixed1(num, den) ==
  Fixed1((IF num < 0 THEN -1 ELSE 1)
           * ((20 * (IF num < 0 THEN -num ELSE num) + den) \div (2 * den)))

\* startingWeight > 0 ? ((weightGain / startingWeight) * 100).toFixed(1) : 0
percentGain(weightGain, startingWeight) ==
  IF startingWeight > 0 THEN toFixed1(weightGain * 100, startingWeight)
  ELSE Num(0)

\* renderStats: the figures shown for a non-empty list of sessions
renderStats(exercise) ==
  LET firstSession == exercise.sessions[1]
      lastSession == exercise.sessions[Len(exercise.sessions)]
      startingWeight == firstSession.maxWeight
      currentWeight == lastSession.maxWeight
      weightGain == currentWeight - startingWeight
  IN [startingWeight |-> startingWeight,
      currentWeight |-> currentWeight,
      personalRecord |-> personalRecord(exercise.sessions),
      weightGain |-> weightGain,
      percentGain |-> percentGain(weightGain, startingWeight),
      isCurrentPR |-> currentWeight = personalRecord(exercise.sessions)]

(***************************************************************************)
(* The Program and Progress tabs on a device with a stored history: the    *)
(* completion of a day and of a week is looked up, the Progress tab is     *)
(* opened and an exercise is selected.  Each query leaves in lastOp its    *)
(* arguments and the value it returned.                                    *)
(***************************************************************************)
\* a week 3 Lower workout finished five days ago, both sets of Squat logged
SquatRecord ==
  LET ts == [date |-> -5, seq |-> 0]
  IN [key |-> workoutKey(3, "Lower", ts),
      week |-> 3,
      dayType |-> "Lower",
      completedAt |-> ts,
      exercises |-> << [name |-> "Squat",
                        sets |-> << [weight |-> Num(200), reps |-> Num(5)],
                                    [weight |-> Num(180), reps |-> Num(5)] >>] >>]

\* a week 3 Full Body workout finished four days ago
LaterSquatRecord ==
  LET ts == [date |-> -4, seq |-> 0]
  IN [key |-> workoutKey(3, "Full Body", ts),
      week |-> 3,
      dayType |-> "Full Body",
      completedAt |-> ts,
      exercises |-> << [name |-> "Squat",
                        sets |-> << [weight |-> Num(220), reps |-> Num(3)] >>] >>]

\* a week 3 Lower workout finished six days ago, one set of Squat logged
\* with the weight 0 that the - button of an empty weight input yields
UnloadedRecord ==
  LET ts == [date |-> -6, seq |-> 0]
  IN [key |-> workoutKey(3, "Lower", ts),
      week |-> 3,
      dayType |-> "Lower",
      completedAt |-> ts,
      exercises |-> << [name |-> "Squat",
                        sets |-> << [weight |-> Num(0), reps |-> Num(5)] >>] >>]

ProgressRecords ==
  StoredRecords \cup { SquatRecord, LaterSquatRecord, UnloadedRecord }

\* histories of up to three of these records, in any key order
ProgressHistories ==
  { << >> }
    \cup { << r >> : r \in ProgressRecords }
    \cup { << p[1], p[2] >> :
             p \in { x \in ProgressRecords \X ProgressRecords : x[1] # x[2] } }
    \cup { << p[1], p[2], p[3] >> :
             p \in { x \in ProgressRecords \X ProgressRecords \X ProgressRecords :
                       x[1] # x[2] /\ x[1] # x[3] /\ x[2] # x[3] } }

InitProgress ==
  /\ currentWorkout = Null
  /\ workoutTimer = FALSE
  /\ intervals = 0
  /\ elapsedSeconds = 0
  /\ activeState = Null
  /\ history \in ProgressHistories
  /\ pendingWorkout = Null
  /\ inflight = EmptyBag
  /\ screen = "blank"
  /\ now = 0
  /\ today = 0
  /\ currentWeek = JNull
  /\ lastOp = Op("load")
  /\ initRuns = 0

\* a query: nothing but the record of the call changes
Query(label) ==
  /\ OtherEvent(label)
  /\ UNCHANGED << currentWorkout, workoutTimer, intervals, elapsedSeconds,
                  activeState, history, pendingWorkout, inflight, screen, now,
                  today,
                  currentWeek >>

\* createDayCard / the week list calling getWorkoutCompletion
GetWorkoutCompletion(weekNum, dayType) ==
  Query([op |-> "getWorkoutCompletion", week |-> weekNum, dayType |-> dayType,
         result |-> getWorkoutCompletion(weekNum, dayType)])

\* the week list calling getWeekCompletionStats
GetWeekCompletionStats(weekNum) ==
  Query([op |-> "getWeekCompletionStats", week |-> weekNum,
         result |-> getWeekCompletionStats(weekNum)])

\* initProgressUI: exerciseData = aggregateExerciseData()
InitProgressUI ==
  Query([op |-> "initProgressUI", result |-> aggregateExerciseData])

\* an exercise is chosen in the selector of the Progress tab, whose options
\* are the keys of exerciseData: renderStats(exerciseName)
RenderStats(exerciseName) ==
  /\ exerciseName \in DOMAIN aggregateExerciseData
  /\ Query([op |-> "renderStats", name |-> exerciseName,
            sessions |-> aggregateExerciseData[exerciseName].sessions,
            result |-> renderStats(aggregateExerciseData[exerciseName])])

\* the weeks and day types the Program tab asks about
QueriedWeeks == {1, 2, 3, 4}

QueriedDayTypes == {"Upper", "Lower", "Full Body", "upper"}

NextProgress ==
  \/ \E w \in QueriedWeeks, d \in QueriedDayTypes : GetWorkoutCompletion(w, d)
  \/ \E w \in QueriedWeeks : GetWeekCompletionStats(w)
  \/ InitProgressUI
  \/ \E n \in {"Bench", "Row", "Squat"} : RenderStats(n)

SpecProgress == InitProgress /\ [][NextProgress]_vars

(***************************************************************************)
(* Reading a device whose stored texts may be damaged: the history text is *)
(* missing, whole, or cut off inside its second record, and the text of    *)
(* the active workout is missing or cut off.  The user starts and cancels  *)
(* workouts, reloads the page and opens the Program and Progress tabs.     *)
(***************************************************************************)
\* the text of a history of two records, cut off inside the second
TruncatedHistory == << EarlierRecord, Unparsable >>

ReadHistories == { << >>, << EarlierRecord >>, TruncatedHistory }

ReadStates == { Null, Unparsable }

InitRead ==
  /\ currentWorkout = Null
  /\ workoutTimer = FALSE
  /\ intervals = 0
  /\ elapsedSeconds = 0
  /\ activeState \in ReadStates
  /\ history \in ReadHistories
  /\ pendingWorkout = Null
  /\ inflight = EmptyBag
  /\ screen = "blank"
  /\ now = 0
  /\ today = 0
  /\ currentWeek = JNull
  /\ lastOp = Op("load")
  /\ initRuns = 0

NextRead ==
  \/ \E sel \in Selections : StartWorkout(sel)
  \/ InitWorkoutUI
  \/ \E sel \in Selections : StartNewWorkout(sel)
  \/ \E sel \in Selections : GetWorkoutCompletion(sel.week, sel.dayType)
  \/ InitProgressUI
  \/ \E confirm \in BOOLEAN : CancelWorkout(confirm)
  \/ Reload

SpecRead == InitRead /\ [][NextRead]_vars


(***************************************************************************)
(* program.js getCurrentWeek: the cursor of the Program tab, kept under    *)
(* minmax_current_week.  It is called with a week number to store, or with *)
(* no argument (weekNum = null) to read.  The user moves the cursor while  *)
(* starting, logging, reopening, timing, finishing and cancelling          *)
(* workouts.                                                               *)
(***************************************************************************)
\* weekNum.toString() of an integer week number
WeekToString(weekNum) == Str(weekNum.n)

\* variant: the stored text is tested as a number, so "0" counts as absent
StoredWeekOrDefault_Numeric(stored) ==
  IF stored.t = "str" /\ stored.n # 0 THEN parseInt(stored) ELSE Num(1)

\* stored ? parseInt(stored, 10) : 1
StoredWeekOrDefault(stored) ==
  IF Truthy(stored) THEN parseInt(stored) ELSE Num(1)

\* getCurrentWeek(weekNum): the stored text and the returned value
getCurrentWeek(weekNum) ==
  IF weekNum # JNull
  THEN [stored |-> WeekToString(weekNum), returned |-> weekNum]
  ELSE [stored |-> currentWeek, returned |-> StoredWeekOrDefault(currentWeek)]

GetCurrentWeek(weekNum) ==
  /\ currentWeek' = getCurrentWeek(weekNum).stored
  /\ OtherEvent([op |-> "getCurrentWeek", weekNum |-> weekNum,
                 returned |-> getCurrentWeek(weekNum).returned])
  /\ UNCHANGED << currentWorkout, workoutTimer, intervals, elapsedSeconds,
                  activeState, history, pendingWorkout, inflight, screen, now,
                  today >>

\* week numbers handed to getCurrentWeek
WeekNumbers == {0, 3}

\* the arguments of getCurrentWeek: a week number, or none
WeekArguments == {JNull} \cup {Num(n) : n \in WeekNumbers}

\* the cursor is absent, or was stored by an earlier getCurrentWeek(1)
StoredWeeks == {JNull, WeekToString(Num(1))}

InitWeek ==
  /\ currentWorkout = Null
  /\ workoutTimer = FALSE
  /\ intervals = 0
  /\ elapsedSeconds = 0
  /\ activeState = Null
  /\ history = << >>
  /\ pendingWorkout = Null
  /\ inflight = EmptyBag
  /\ screen = "blank"
  /\ now = 0
  /\ today = 0
  /\ currentWeek \in StoredWeeks
  /\ lastOp = Op("load")
  /\ initRuns = 0

NextWeek ==
  \/ \E weekNum \in WeekArguments : GetCurrentWeek(weekNum)
  \/ \E sel \in Selections : StartWorkout(sel)
  \/ InitWorkoutUI
  \/ \E sel \in Selections : StartNewWorkout(sel)
  \/ \E r \in OpenRows, v \in TypedWeights : HandleInputChange(r[1], r[2], "weight", v)
  \/ \E r \in OpenRows, v \in TypedReps : HandleInputChange(r[1], r[2], "reps", v)
  \/ \E r \in OpenRows : LogSet(r[1], r[2])
  \/ \E r \in LoggedRows : EditSet(r[1], r[2])
  \/ Tick
  \/ \E confirm \in BOOLEAN, writeOk \in BOOLEAN : FinishWorkout(confirm, writeOk)
  \/ \E confirm \in BOOLEAN : CancelWorkout(confirm)

SpecWeek == InitWeek /\ [][NextWeek]_vars


(***************************************************************************)
(* Selections pressed on the Program tab before and after workout.js is    *)
(* loaded.  Before (nothing rendered yet), the tab switch reaches          *)
(* initWorkoutUI as a later event.  After, the awaited import of           *)
(* onTabActivated is already resolved and initWorkoutUI runs in the turn   *)
(* of the press, with no other event between them.  The Workout tab is     *)
(* also activated without a press (InitWorkoutUI).                         *)
(***************************************************************************)
StartWorkoutOnTab(sel) ==
  InitWorkoutUIWith(sel, MaxInflight,
                    SelOp("startWorkout", sel.week, sel.dayType))

NextPending ==
  \/ \E sel \in Selections : screen = "blank" /\ StartWorkout(sel)
  \/ \E sel \in Selections : screen # "blank" /\ StartWorkoutOnTab(sel)
  \/ InitWorkoutUI
  \/ \E sel \in Selections : StartNewWorkout(sel)
  \/ \E r \in OpenRows, v \in TypedWeights : HandleInputChange(r[1], r[2], "weight", v)
  \/ \E r \in OpenRows, v \in TypedReps : HandleInputChange(r[1], r[2], "reps", v)
  \/ \E r \in OpenRows : LogSet(r[1], r[2])
  \/ \E confirm \in BOOLEAN, writeOk \in BOOLEAN : FinishWorkout(confirm, writeOk)
  \/ \E confirm \in BOOLEAN : CancelWorkout(confirm)
  \/ Reload

SpecPending == Init /\ [][NextPending]_vars


(***************************************************************************)
(* Overlapping initialisations: the Workout tab is activated again while   *)
(* an earlier initWorkoutUI is suspended at await getDay inside            *)
(* startNewWorkout (each activation calls initWorkoutUI, app.js            *)
(* onTabActivated).  The suspended calls complete in any order, and the    *)
(* user types and logs sets, finishes and cancels in between.              *)
(***************************************************************************)
InitWorkoutUIOverlapping ==
  InitWorkoutUIWith(pendingWorkout, MaxOverlap, Op("initWorkoutUI"))

NextOverlap ==
  \/ \E sel \in Selections : StartWorkout(sel)
  \/ InitWorkoutUIOverlapping
  \/ \E sel \in Selections : StartNewWorkout(sel)
  \/ \E r \in OpenRows, v \in TypedWeights : HandleInputChange(r[1], r[2], "weight", v)
  \/ \E r \in OpenRows, v \in TypedReps : HandleInputChange(r[1], r[2], "reps", v)
  \/ \E r \in OpenRows : LogSet(r[1], r[2])
  \/ \E r \in LoggedRows : EditSet(r[1], r[2])
  \/ \E confirm \in BOOLEAN, writeOk \in BOOLEAN : FinishWorkout(confirm, writeOk)
  \/ \E confirm \in BOOLEAN : CancelWorkout(confirm)

SpecOverlap == Init /\ [][NextOverlap]_vars


(***************************************************************************)
(* Properties                                                              *)
(***************************************************************************)
SomeLogged(workout) ==
  \E r \in Rows(workout) : workout.exercises[r[1]].loggedSets[r[2]].logged

\* two values that serialise alike: equal, or both left out by JSON.stringify
SameJSON(a, b) ==
  a = b \/ (a.t \in {"undef", "absent"} /\ b.t \in {"undef", "absent"})

\* two sessions (or null) with the same serialisation
SameSession(a, b) ==
  IF a = Null \/ b = Null THEN a = b
  ELSE /\ a.week = b.week
       /\ a.dayType = b.dayType
       /\ a.startedAt = b.startedAt
       /\ a.elapsedSeconds = b.elapsedSeconds
       /\ Len(a.exercises) = Len(b.exercises)
       /\ \A e \in DOMAIN a.exercises :
            /\ a.exercises[e].name = b.exercises[e].name
            /\ SameJSON(a.exercises[e].sets, b.exercises[e].sets)
            /\ a.exercises[e].completed = b.exercises[e].completed
            /\ a.exercises[e].expanded = b.exercises[e].expanded
            /\ a.exercises[e].loggedSets = b.exercises[e].loggedSets

Incomplete(workout) ==
  \E e \in DOMAIN workout.exercises : ~workout.exercises[e].completed

\* C1: in the session held in memory and in its stored snapshot, an
\* exercise is completed if and only if every one of its sets is logged.
C1_CompletedIffAllLogged ==
  \A w \in {currentWorkout, activeState} \ {Null} :
    \A e \in DOMAIN w.exercises :
      w.exercises[e].completed <=>
        (\A k \in DOMAIN w.exercises[e].loggedSets :
           w.exercises[e].loggedSets[k].logged)

\* editSet has reopened one set of an exercise that keeps another logged set
C1_Witness ==
  /\ lastOp.op = "editSet"
  /\ currentWorkout # Null
  /\ ~currentWorkout.exercises[lastOp.e].completed
  /\ \E k \in DOMAIN currentWorkout.exercises[lastOp.e].loggedSets :
       currentWorkout.exercises[lastOp.e].loggedSets[k].logged

\* C2: a finishWorkout whose history write fails leaves the session in
\* memory and its stored snapshot present and as they were, and adds no
\* record to the history.
C2_FailedFinishKeepsSession ==
  [][(lastOp'.op = "finishWorkout" /\ lastOp'.write = "failed")
       => /\ currentWorkout # Null
          /\ currentWorkout' = currentWorkout
          /\ activeState # Null
          /\ activeState' = activeState
          /\ history' = history]_vars

C2_Witness ==
  /\ lastOp.op = "finishWorkout"
  /\ lastOp.write = "failed"
  /\ currentWorkout # Null
  /\ SameSession(activeState, currentWorkout)
  /\ SomeLogged(currentWorkout)

\* the index of the j-th logged set of an exercise
NthLogged(exercise, j) ==
  CHOOSE k \in DOMAIN exercise.loggedSets :
    /\ exercise.loggedSets[k].logged
    /\ Cardinality({m \in 1..(k - 1) : exercise.loggedSets[m].logged}) = j - 1

\* a history record holds one entry per exercise of the session, in order,
\* and each entry holds the logged sets of that exercise, in order
RecordOf(rec, workout) ==
  /\ Len(rec.exercises) = Len(workout.exercises)
  /\ \A e \in DOMAIN workout.exercises :
       LET ex == workout.exercises[e]
           sets == rec.exercises[e].sets
       IN /\ rec.exercises[e].name = ex.name
          /\ Len(sets) = Cardinality({k \in DOMAIN ex.loggedSets :
                                        ex.loggedSets[k].logged})
          /\ \A j \in DOMAIN sets :
               /\ sets[j].weight = Num(ex.loggedSets[NthLogged(ex, j)].weight.n)
               /\ sets[j].reps = Num(ex.loggedSets[NthLogged(ex, j)].reps.n)

\* C3: the record written by finishWorkout has one entry per exercise of
\* the session, in order, and the sets of each entry are exactly the sets
\* of that exercise that were logged, in order.
C3_RecordHoldsLoggedSets ==
  [][(lastOp'.op = "finishWorkout" /\ lastOp'.write = "ok" /\ currentWorkout # Null)
       => LET written == {i \in DOMAIN history' :
                            history'[i].completedAt = Timestamp}
          IN /\ written # {}
             /\ \A i \in written : RecordOf(history'[i], currentWorkout)]_vars

\* a record was written with an exercise that has sets and one that has none
C3_Witness ==
  /\ lastOp.op = "finishWorkout"
  /\ lastOp.write = "ok"
  /\ \E i \in DOMAIN history :
       /\ \E e \in DOMAIN history[i].exercises : history[i].exercises[e].sets = << >>
       /\ \E e \in DOMAIN history[i].exercises : history[i].exercises[e].sets # << >>

\* C4: finishWorkout on a session with an exercise that is not completed
\* shows the confirm dialog, and when the answer is no the session, its
\* snapshot, the history, the timer and the elapsed counter are unchanged.
C4_RejectedFinishChangesNothing ==
  [][(lastOp'.op = "finishWorkout" /\ currentWorkout # Null /\ Incomplete(currentWorkout))
       => /\ lastOp'.confirm # "none"
          /\ lastOp'.confirm = "no" =>
               UNCHANGED << currentWorkout, activeState, history, workoutTimer,
                            intervals, elapsedSeconds, screen >>]_vars

C4_Witness ==
  /\ lastOp.op = "finishWorkout"
  /\ lastOp.confirm = "no"
  /\ currentWorkout # Null
  /\ workoutTimer
  /\ \E e \in DOMAIN currentWorkout.exercises : currentWorkout.exercises[e].completed

\* C5: a finishWorkout that is confirmed, or needs no confirmation, attempts
\* the history write; when the write succeeds the timer is stopped, the
\* history holds a record with the week and dayType of the session, the
\* stored snapshot is removed and the session in memory is null.
C5_SavedFinishClearsSession ==
  [][(lastOp'.op = "finishWorkout" /\ lastOp'.confirm # "no" /\ currentWorkout # Null)
       => /\ lastOp'.write # "none"
          /\ lastOp'.write = "ok" =>
               /\ ~workoutTimer'
               /\ intervals' = 0
               /\ \E i \in DOMAIN history' :
                    /\ history'[i].week = currentWorkout.week
                    /\ history'[i].dayType = currentWorkout.dayType
               /\ activeState' = Null
               /\ currentWorkout' = Null]_vars

C5_Witness ==
  /\ lastOp.op = "finishWorkout"
  /\ lastOp.confirm = "yes"
  /\ lastOp.write = "ok"
  /\ currentWorkout = Null
  /\ Len(history) = 1

\* C6: cancelWorkout never changes the history, and when confirmed it stops
\* the timer and removes the session from memory and from storage.
C6_CancelDiscardsWithoutHistory ==
  [][lastOp'.op = "cancelWorkout"
       => /\ history' = history
          /\ lastOp'.confirm = "yes" =>
               /\ ~workoutTimer'
               /\ intervals' = 0
               /\ currentWorkout' = Null
               /\ activeState' = Null]_vars

\* a confirmed cancel on a device whose history holds a record
C6_Witness ==
  /\ lastOp.op = "cancelWorkout"
  /\ lastOp.confirm = "yes"
  /\ currentWorkout = Null
  /\ activeState = Null
  /\ intervals = 0
  /\ history # << >>

\* C7: a cancelWorkout whose confirmation is rejected changes neither the
\* session, nor its snapshot, nor the elapsed counter, nor the timer.
C7_RejectedCancelIsNoOp ==
  [][(lastOp'.op = "cancelWorkout" /\ lastOp'.confirm = "no")
       => UNCHANGED << currentWorkout, activeState, elapsedSeconds,
                       workoutTimer, intervals, screen >>]_vars

C7_Witness ==
  /\ lastOp.op = "cancelWorkout"
  /\ lastOp.confirm = "no"
  /\ currentWorkout # Null
  /\ activeState # Null
  /\ workoutTimer
  /\ elapsedSeconds > 0

\* C8: whenever a session is held in memory, the snapshot under the
\* active-workout key is its serialisation, elapsedSeconds included.
C8_SnapshotMirrorsSession ==
  currentWorkout # Null =>
    /\ activeState # Null
    /\ SameSession(activeState, currentWorkout)
    /\ activeState.elapsedSeconds = elapsedSeconds

C8_Witness ==
  /\ lastOp.op = "tick"
  /\ currentWorkout # Null
  /\ currentWorkout.elapsedSeconds > 0
  /\ SomeLogged(currentWorkout)
  /\ \E e \in DOMAIN currentWorkout.exercises : currentWorkout.exercises[e].expanded

\* C9: initWorkoutUI with a stored snapshot makes the session in memory
\* equal to the snapshot, sets the elapsed counter from it, leaves the
\* snapshot as it is, starts the timer and starts no new workout, whatever
\* the pending selection is.
C9_ResumeIsVerbatim ==
  [][(lastOp'.op = "initWorkoutUI" /\ activeState # Null)
       => /\ currentWorkout' = activeState
          /\ activeState' = activeState
          /\ elapsedSeconds' = activeState.elapsedSeconds
          /\ workoutTimer'
          /\ intervals' = 1
          /\ inflight' = inflight]_vars

C9_Witness ==
  /\ lastOp.op = "initWorkoutUI"
  /\ currentWorkout # Null
  /\ pendingWorkout # Null
  /\ pendingWorkout.dayType # currentWorkout.dayType
  /\ currentWorkout.elapsedSeconds > 0
  /\ SomeLogged(currentWorkout)

\* C10: an initWorkoutUI call that completes right after another completed
\* initWorkoutUI call, with no event between them, shows the same screen
\* and leaves the session, its snapshot and the elapsed counter as the
\* first call left them.
C10_InitTwiceSameResult ==
  [][initRuns' = 2
       => /\ screen' = screen
          /\ SameSession(currentWorkout', currentWorkout)
          /\ activeState' = activeState
          /\ elapsedSeconds' = elapsedSeconds]_vars

C10_Witness ==
  /\ initRuns = 2
  /\ screen = "active"
  /\ currentWorkout # Null
  /\ pendingWorkout = Null

\* C11: whenever a session is held in memory, a timer is running.
C11_TimerRunsWhileActive ==
  currentWorkout # Null => (workoutTimer /\ intervals > 0)

\* C12: whenever no session is held in memory, no timer is scheduled.
C12_NoTimerWithoutSession ==
  currentWorkout = Null => (~workoutTimer /\ intervals = 0)

\* a session has been finished and cleared
C12_Witness ==
  /\ lastOp.op = "finishWorkout"
  /\ lastOp.write = "ok"
  /\ currentWorkout = Null
  /\ intervals = 0
  /\ ~workoutTimer

\* C13: at most one interval callback is scheduled, and it is the one the
\* timer handle holds.
C13_AtMostOneTimer ==
  /\ intervals <= 1
  /\ workoutTimer <=> intervals = 1

\* the workout was rendered again (after logging a set) while the timer of
\* a session that has already ticked was running
C13_Witness ==
  /\ lastOp.op = "logSet"
  /\ currentWorkout # Null
  /\ currentWorkout.elapsedSeconds > 0
  /\ SomeLogged(currentWorkout)
  /\ intervals = 1

\* the set a row handler was aimed at, in a session
SetAt(workout, label) == workout.exercises[label.e].loggedSets[label.s]

\* C14: logSet on a set whose weight or reps is empty alerts the user and
\* changes neither the session nor its snapshot nor anything else.
C14_IncompleteLogSetChangesNothing ==
  [][(/\ lastOp'.op = "logSet"
      /\ currentWorkout # Null
      /\ \/ SetAt(currentWorkout, lastOp').weight = EmptyStr
         \/ SetAt(currentWorkout, lastOp').reps = EmptyStr)
       => /\ lastOp'.alert
          /\ UNCHANGED << currentWorkout, activeState, workoutTimer, intervals,
                          elapsedSeconds, history, screen >>]_vars

\* logSet was rejected on a set with a weight and no reps
C14_Witness ==
  /\ lastOp.op = "logSet"
  /\ lastOp.alert
  /\ currentWorkout # Null
  /\ SetAt(currentWorkout, lastOp).weight = Str(5)
  /\ SetAt(currentWorkout, lastOp).reps = EmptyStr
  /\ ~SetAt(currentWorkout, lastOp).logged

\* a logged set or a stored set with a weight and reps that are numbers > 0
Positive(v) == v.t \in {"str", "num"} /\ v.n > 0

\* C15: every logged set of the session has a weight and reps that parse
\* to numbers > 0, and so has every set of every history record.
C15_LoggedOnlyPositive ==
  /\ currentWorkout # Null =>
       \A r \in Rows(currentWorkout) :
         LET set == currentWorkout.exercises[r[1]].loggedSets[r[2]]
         IN set.logged => Positive(set.weight) /\ Positive(set.reps)
  /\ \A i \in DOMAIN history :
       \A e \in DOMAIN history[i].exercises :
         \A k \in DOMAIN history[i].exercises[e].sets :
           /\ Positive(history[i].exercises[e].sets[k].weight)
           /\ Positive(history[i].exercises[e].sets[k].reps)

\* two sessions that differ at most in one set and in the completed flag of
\* the exercise that owns it
SameExceptSet(a, b, e, s) ==
  /\ a.week = b.week
  /\ a.dayType = b.dayType
  /\ a.startedAt = b.startedAt
  /\ a.elapsedSeconds = b.elapsedSeconds
  /\ DOMAIN a.exercises = DOMAIN b.exercises
  /\ \A i \in DOMAIN a.exercises :
       IF i # e THEN a.exercises[i] = b.exercises[i]
       ELSE /\ a.exercises[i].name = b.exercises[i].name
            /\ a.exercises[i].sets = b.exercises[i].sets
            /\ a.exercises[i].expanded = b.exercises[i].expanded
            /\ DOMAIN a.exercises[i].loggedSets = DOMAIN b.exercises[i].loggedSets
            /\ \A k \in DOMAIN a.exercises[i].loggedSets :
                 k # s => a.exercises[i].loggedSets[k] = b.exercises[i].loggedSets[k]

\* C16: editSet sets the logged flag of its set and the completed flag of
\* the owning exercise to false, keeps the weight and reps of the set and
\* everything else in the session, and stores the result.
C16_EditSetReopensOnlyThatSet ==
  [][(lastOp'.op = "editSet" /\ currentWorkout # Null)
       => /\ currentWorkout' # Null
          /\ SameExceptSet(currentWorkout', currentWorkout, lastOp'.e, lastOp'.s)
          /\ ~SetAt(currentWorkout', lastOp').logged
          /\ SetAt(currentWorkout', lastOp').weight = SetAt(currentWorkout, lastOp').weight
          /\ SetAt(currentWorkout', lastOp').reps = SetAt(currentWorkout, lastOp').reps
          /\ SetAt(currentWorkout', lastOp').setNumber = SetAt(currentWorkout, lastOp').setNumber
          /\ ~currentWorkout'.exercises[lastOp'.e].completed
          /\ SameSession(activeState', currentWorkout')]_vars

\* set 1 of a two-set exercise was reopened while set 2 stays logged
C16_Witness ==
  /\ lastOp.op = "editSet"
  /\ lastOp.s = 1
  /\ currentWorkout # Null
  /\ Len(currentWorkout.exercises[lastOp.e].loggedSets) = 2
  /\ ~SetAt(currentWorkout, lastOp).logged
  /\ SetAt(currentWorkout, lastOp).weight = Str(5)
  /\ currentWorkout.exercises[lastOp.e].loggedSets[2].logged
  /\ ~currentWorkout.exercises[lastOp.e].completed

\* C17: logSet right after editSet on the same set logs the set again with
\* the weight and reps it had, changes no other set, and leaves the
\* exercise completed exactly when all its sets are logged.
C17_EditThenLogRestores ==
  [][(lastOp'.op = "logSet" /\ lastOp'.relog /\ currentWorkout # Null)
       => /\ ~lastOp'.alert
          /\ currentWorkout' # Null
          /\ SameExceptSet(currentWorkout', currentWorkout, lastOp'.e, lastOp'.s)
          /\ SetAt(currentWorkout', lastOp') =
               [SetAt(currentWorkout, lastOp') EXCEPT !.logged = TRUE]
          /\ currentWorkout'.exercises[lastOp'.e].completed <=>
               \A k \in DOMAIN currentWorkout'.exercises[lastOp'.e].loggedSets :
                 currentWorkout'.exercises[lastOp'.e].loggedSets[k].logged]_vars

\* a reopened set was logged again and its exercise is completed again
C17_Witness ==
  /\ lastOp.op = "logSet"
  /\ lastOp.relog
  /\ currentWorkout # Null
  /\ SetAt(currentWorkout, lastOp).logged
  /\ Len(currentWorkout.exercises[lastOp.e].loggedSets) = 2
  /\ currentWorkout.exercises[lastOp.e].completed

\* the templates the catalog lists for a day
Templates(week, dayType) ==
  LET w == CHOOSE x \in {programData.weeks[i] : i \in DOMAIN programData.weeks} :
             x.week = week
      d == CHOOSE x \in {w.days[i] : i \in DOMAIN w.days} : x.day_type = dayType
  IN d.exercises

\* the set count of a template read as an integer, 2 when there is none
SetCount(template) ==
  IF template.sets.t \in {"str", "num"} /\ template.sets.n > 0
  THEN template.sets.n ELSE 2

\* C18: the session startNewWorkout creates has the exercises of the
\* catalog day in order, none completed, each with as many sets as the
\* template's set count (2 when it has none), numbered from 1 and not
\* logged; its elapsedSeconds is 0; its snapshot is stored; and with an
\* empty history every weight and reps is empty.
C18_NewWorkoutShape ==
  [][(lastOp'.op = "startNewWorkout" /\ screen' = "active")
       => LET w == currentWorkout'
              ts == Templates(w.week, w.dayType)
          IN /\ Len(w.exercises) = Len(ts)
             /\ \A e \in DOMAIN ts :
                  /\ w.exercises[e].name = ts[e].exercise
                  /\ ~w.exercises[e].completed
                  /\ Len(w.exercises[e].loggedSets) = SetCount(ts[e])
                  /\ \A k \in DOMAIN w.exercises[e].loggedSets :
                       /\ w.exercises[e].loggedSets[k].setNumber = k
                       /\ ~w.exercises[e].loggedSets[k].logged
                       /\ history = << >> =>
                            /\ w.exercises[e].loggedSets[k].weight = EmptyStr
                            /\ w.exercises[e].loggedSets[k].reps = EmptyStr
             /\ w.elapsedSeconds = 0
             /\ elapsedSeconds' = 0
             /\ BagIn([week |-> w.week, dayType |-> w.dayType], inflight)
             /\ SameSession(activeState', w)]_vars

\* a workout was started, with an empty history, for a day whose template
\* has no set count
C18_Witness ==
  /\ lastOp.op = "startNewWorkout"
  /\ screen = "active"
  /\ history = << >>
  /\ currentWorkout # Null
  /\ activeState # Null
  /\ currentWorkout.dayType = "Full Body"
  /\ Len(currentWorkout.exercises[1].loggedSets) = 2

\* the records of the history that hold an exercise of that name
RecordsWith(name) ==
  {i \in DOMAIN history :
     \E e \in DOMAIN history[i].exercises : history[i].exercises[e].name = name}

\* the sets of that exercise in the record with the greatest completedAt
\* among them
LatestSets(name) ==
  LET i == CHOOSE j \in RecordsWith(name) :
             \A k \in RecordsWith(name) :
               ~Earlier(history[j].completedAt, history[k].completedAt)
      e == CHOOSE x \in DOMAIN history[i].exercises :
             history[i].exercises[x].name = name
  IN history[i].exercises[e].sets

\* C19: every set i of every exercise of a new workout is not logged and
\* has the weight and reps of element i of the sets of that exercise in
\* the record with the greatest completedAt that holds the exercise, and
\* an empty weight and reps when no record holds the exercise or that
\* record has no element i.
C19_PrefillFromLatestRecord ==
  [][(lastOp'.op = "startNewWorkout" /\ screen' = "active")
       => \A e \in DOMAIN currentWorkout'.exercises :
            LET ex == currentWorkout'.exercises[e]
            IN \A k \in DOMAIN ex.loggedSets :
                 /\ ~ex.loggedSets[k].logged
                 /\ IF RecordsWith(ex.name) # {} /\ k \in DOMAIN LatestSets(ex.name)
                    THEN /\ ex.loggedSets[k].weight = LatestSets(ex.name)[k].weight
                         /\ ex.loggedSets[k].reps = LatestSets(ex.name)[k].reps
                    ELSE /\ ex.loggedSets[k].weight = EmptyStr
                         /\ ex.loggedSets[k].reps = EmptyStr]_vars

\* a Full Body workout was started with two records of Bench stored, the
\* older one first and with two sets, the later one with one set: set 1 is
\* filled from the later record and set 2 is left empty
C19_Witness ==
  /\ lastOp.op = "startNewWorkout"
  /\ screen = "active"
  /\ history = << OlderRecord, EarlierRecord >>
  /\ currentWorkout # Null
  /\ currentWorkout.dayType = "Full Body"
  /\ currentWorkout.exercises[1].loggedSets[1].weight = Num(5)
  /\ currentWorkout.exercises[1].loggedSets[1].reps = Num(1)
  /\ currentWorkout.exercises[1].loggedSets[2].weight = EmptyStr

\* the catalog has a day for the selection
InCatalog(sel) ==
  \E i \in DOMAIN programData.weeks :
    /\ programData.weeks[i].week = sel.week
    /\ \E j \in DOMAIN programData.weeks[i].days :
         programData.weeks[i].days[j].day_type = sel.dayType

\* C20: a startNewWorkout for a selection the catalog has no day for
\* creates no session: the session in memory, the stored snapshot and the
\* timer are as before (none, when there was none) and the empty state is
\* shown.
C20_MissingDayStartsNothing ==
  [][(/\ lastOp'.op = "startNewWorkout"
      /\ \E sel \in MissingSelections :
           BagIn(sel, inflight) /\ inflight' = inflight (-) SetToBag({sel}))
       => /\ screen' = "empty"
          /\ UNCHANGED << currentWorkout, activeState, workoutTimer, intervals,
                          elapsedSeconds, history >>]_vars

\* a start for a missing day has completed: no session, no snapshot, no
\* timer, the empty state
C20_Witness ==
  /\ lastOp.op = "startNewWorkout"
  /\ screen = "empty"
  /\ currentWorkout = Null
  /\ activeState = Null
  /\ ~workoutTimer
  /\ intervals = 0
  /\ pendingWorkout = Null

\* the keys of a history
Keys(h) == {h[i].key : i \in DOMAIN h}

\* C21: the history changes only in a finishWorkout whose write succeeds
\* (never in startNewWorkout, a resume, logSet, editSet, toggleExercise, a
\* tick, an input change or cancelWorkout), and that finishWorkout changes
\* only the entry under the key of the finished week, dayType and date:
\* every record under another key stays as it is, in its place, and no
\* key is removed.
C21_HistoryChangedOnlyByFinish ==
  [][history' # history
       => /\ lastOp'.op = "finishWorkout"
          /\ lastOp'.write = "ok"
          /\ currentWorkout # Null
          /\ LET k == workoutKey(currentWorkout.week, currentWorkout.dayType,
                                 Timestamp)
             IN /\ \A i \in DOMAIN history :
                     history[i].key # k =>
                       i \in DOMAIN history' /\ history'[i] = history[i]
                /\ Keys(history) \subseteq Keys(history')
                /\ Keys(history') \subseteq Keys(history) \cup {k}]_vars

\* a finish has added a record to a history that held the record of an
\* earlier day, which is still there
C21_Witness ==
  /\ lastOp.op = "finishWorkout"
  /\ lastOp.write = "ok"
  /\ Len(history) = 2
  /\ history[1] = EarlierRecord
  /\ history[2].completedAt.date = today

\* the key saveWorkout builds, written out for the day types of the catalog
KeyOf(week, dayType, date) ==
  [week |-> week,
   day |-> IF dayType = "Full Body" THEN "fullbody" ELSE "upper",
   date |-> date]

C25_CompletionIsStable ==
  [][\A sel \in Selections :
       /\ (/\ lastOp'.op = "finishWorkout"
           /\ lastOp'.write = "ok"
           /\ currentWorkout # Null
           /\ currentWorkout.week = sel.week
           /\ currentWorkout.dayType = sel.dayType)
            => getWorkoutCompletion(sel.week, sel.dayType)' # Null
       /\ getWorkoutCompletion(sel.week, sel.dayType) # Null
            => getWorkoutCompletion(sel.week, sel.dayType)' # Null]_vars

\* the page was reloaded after a finish that overwrote the only Upper
\* record of the history; Upper is still reported completed, with the date
\* of the later finish
C25_Witness ==
  /\ lastOp.op = "reload"
  /\ Len(history) = 1
  /\ history[1].key = TodayRecord.key
  /\ history[1].completedAt = [date |-> 0, seq |-> 1]
  /\ getWorkoutCompletion(1, "Upper") # Null
  /\ getWorkoutCompletion(1, "Upper").date = history[1].completedAt
  /\ getWorkoutCompletion(1, "Full Body") = Null

\* the entries of the history with that week and that dayType
Matching(week, dayType) ==
  {i \in DOMAIN history : history[i].week = week /\ history[i].dayType = dayType}

\* C23: getWorkoutCompletion(week, dayType) reports completed if and only
\* if some record of the history has exactly that week and that dayType;
\* the date and key it returns are those of one such record; and the call
\* changes neither the history nor the stored session nor the pending
\* selection.
C23_CompletionIffMatchingRecord ==
  [][lastOp'.op = "getWorkoutCompletion"
       => LET matches == Matching(lastOp'.week, lastOp'.dayType)
              r == lastOp'.result
          IN /\ (r # Null) <=> (matches # {})
             /\ r # Null =>
                  /\ r.completed
                  /\ \E i \in matches : /\ r.date = history[i].completedAt
                                         /\ r.key = history[i].key
             /\ UNCHANGED << history, activeState, pendingWorkout >>]_vars

\* week 3 Upper was asked about on a device that has finished Upper in
\* week 1 and Lower in week 3 only: not completed
C23_Witness ==
  /\ lastOp.op = "getWorkoutCompletion"
  /\ lastOp.week = 3
  /\ lastOp.dayType = "Upper"
  /\ lastOp.result = Null
  /\ Matching(1, "Upper") # {}
  /\ Matching(3, "Lower") # {}

\* the days the catalog defines for a week (none when it has no such week)
CatalogDays(week) ==
  UNION { { <<i, j>> : j \in DOMAIN programData.weeks[i].days } :
          i \in {x \in DOMAIN programData.weeks : programData.weeks[x].week = week} }

\* C24: getWeekCompletionStats(week) returns as total the number of days
\* the catalog defines for the week, as completed the number of those days
\* that have a matching record, with 0 <= completed <= total, and as
\* percentage the integer nearest to completed / total * 100 (a half
\* rounded up), which is 0 when total is 0 or the catalog has no such
\* week; the percentage is within 0..100.
C24_WeekStats ==
  [][lastOp'.op = "getWeekCompletionStats"
       => LET r == lastOp'.result
              days == CatalogDays(lastOp'.week)
              done == {d \in days :
                         Matching(lastOp'.week,
                                  programData.weeks[d[1]].days[d[2]].day_type) # {}}
          IN /\ r.total = Cardinality(days)
             /\ r.completed = Cardinality(done)
             /\ 0 <= r.completed /\ r.completed <= r.total
             /\ r.total = 0 => r.percentage = 0
             /\ r.total > 0 =>
                  /\ 2 * r.percentage * r.total - r.total <= 200 * r.completed
                  /\ 200 * r.completed < 2 * r.percentage * r.total + r.total
             /\ r.percentage \in 0..100]_vars

\* two of the three days of week 3 are completed: 67 percent
C24_Witness ==
  /\ lastOp.op = "getWeekCompletionStats"
  /\ lastOp.week = 3
  /\ lastOp.result = [total |-> 3, completed |-> 2, percentage |-> 67]

\* the records in which the exercise has a non-empty sets list
RecordsWithSets(name) ==
  {i \in DOMAIN history :
     \E e \in DOMAIN history[i].exercises :
       /\ history[i].exercises[e].name = name
       /\ history[i].exercises[e].sets # << >>}

\* the sets list of the exercise in a record
SetsIn(i, name) ==
  LET e == CHOOSE x \in DOMAIN history[i].exercises :
             history[i].exercises[x].name = name
  IN history[i].exercises[e].sets

\* the sum of weight x reps over the elements of a list from index k on
RECURSIVE VolumeFrom(_, _)
VolumeFrom(sets, k) ==
  IF k > Len(sets) THEN 0
  ELSE sets[k].weight.n * sets[k].reps.n + VolumeFrom(sets, k + 1)

\* C26: aggregateExerciseData lists, for each exercise name, exactly one
\* session per record in which the exercise has a non-empty sets list,
\* with that record's date, week and dayType, maxWeight the greatest
\* weight of its sets and totalVolume the sum of weight x reps over them;
\* an exercise with an empty sets list in every record is not in the
\* result.
C26_OneSessionPerRecordWithSets ==
  [][lastOp'.op = "initProgressUI"
       => LET data == lastOp'.result
          IN /\ DOMAIN data = {n \in ExerciseNames(history) : RecordsWithSets(n) # {}}
             /\ \A n \in DOMAIN data :
                  /\ data[n].name = n
                  /\ Len(data[n].sessions) = Cardinality(RecordsWithSets(n))
                  /\ \A i \in RecordsWithSets(n) :
                       \E k \in DOMAIN data[n].sessions :
                         LET s == data[n].sessions[k]
                             sets == SetsIn(i, n)
                         IN /\ s.date = history[i].completedAt
                            /\ s.week = history[i].week
                            /\ s.dayType = history[i].dayType
                            /\ s.sets = sets
                            /\ \E j \in DOMAIN sets : s.maxWeight = sets[j].weight.n
                            /\ \A j \in DOMAIN sets : s.maxWeight >= sets[j].weight.n
                            /\ s.totalVolume = VolumeFrom(sets, 1)]_vars

\* the Progress tab was opened on a history in which Bench has sets in two
\* records and Row in none: Bench has two sessions, the one with two sets
\* has maxWeight 15 and totalVolume 65, and Row is left out
C26_Witness ==
  /\ lastOp.op = "initProgressUI"
  /\ history = << EarlierRecord, OlderRecord >>
  /\ DOMAIN lastOp.result = {"Bench"}
  /\ Len(lastOp.result["Bench"].sessions) = 2
  /\ \E k \in 1..2 : /\ lastOp.result["Bench"].sessions[k].maxWeight = 15
                      /\ lastOp.result["Bench"].sessions[k].totalVolume = 65

\* C27: in the result of aggregateExerciseData the sessions of every
\* exercise are in ascending order of date, whatever the order of the
\* records in the history.
C27_SessionsAscendingByDate ==
  [][lastOp'.op = "initProgressUI"
       => \A n \in DOMAIN lastOp'.result :
            LET ss == lastOp'.result[n].sessions
            IN \A a, b \in DOMAIN ss : a < b => ~Earlier(ss[b].date, ss[a].date)]_vars

\* three records of Squat are stored with the latest first and the
\* earliest second; the sessions come out earliest first
C27_Witness ==
  /\ lastOp.op = "initProgressUI"
  /\ history = << LaterSquatRecord, UnloadedRecord, SquatRecord >>
  /\ Len(lastOp.result["Squat"].sessions) = 3
  /\ lastOp.result["Squat"].sessions[1].date = UnloadedRecord.completedAt
  /\ lastOp.result["Squat"].sessions[2].date = SquatRecord.completedAt
  /\ lastOp.result["Squat"].sessions[3].date = LaterSquatRecord.completedAt

\* the index of the earliest and of the latest session of a list
EarliestIn(ss) ==
  CHOOSE i \in DOMAIN ss : \A j \in DOMAIN ss : ~Earlier(ss[j].date, ss[i].date)

LatestIn(ss) ==
  CHOOSE i \in DOMAIN ss : \A j \in DOMAIN ss : ~Earlier(ss[i].date, ss[j].date)

\* C28: for a non-empty list of sessions renderStats shows
\* startingWeight = the maxWeight of the earliest session, currentWeight =
\* the maxWeight of the latest session, personalRecord = the greatest
\* maxWeight of all sessions, gain = currentWeight - startingWeight, and
\* isCurrentPR true exactly when currentWeight = personalRecord; sessions
\* with maxWeight 200 then 220 give 200, 220, 220, 20, 10.0 and true.
C28_SummaryStatistics ==
  [][lastOp'.op = "renderStats"
       => LET ss == lastOp'.sessions
              r == lastOp'.result
          IN /\ ss # << >>
             /\ r.startingWeight = ss[EarliestIn(ss)].maxWeight
             /\ r.currentWeight = ss[LatestIn(ss)].maxWeight
             /\ \E j \in DOMAIN ss : r.personalRecord = ss[j].maxWeight
             /\ \A j \in DOMAIN ss : r.personalRecord >= ss[j].maxWeight
             /\ r.weightGain = r.currentWeight - r.startingWeight
             /\ r.isCurrentPR <=> (r.currentWeight = r.personalRecord)
             /\ (r.startingWeight = 200 /\ r.currentWeight = 220 /\ Len(ss) = 2)
                  => r = [startingWeight |-> 200, currentWeight |-> 220,
                          personalRecord |-> 220, weightGain |-> 20,
                          percentGain |-> Fixed1(100), isCurrentPR |-> TRUE]]_vars

\* Bench was selected with a session of maxWeight 15 followed by one of
\* maxWeight 5, stored latest first: the record is 15, not the current 5
C28_Witness ==
  /\ lastOp.op = "renderStats"
  /\ lastOp.name = "Bench"
  /\ history = << EarlierRecord, OlderRecord >>
  /\ lastOp.result.startingWeight = 15
  /\ lastOp.result.currentWeight = 5
  /\ lastOp.result.personalRecord = 15
  /\ lastOp.result.weightGain = -10
  /\ ~lastOp.result.isCurrentPR

\* C29 as stated: percentGain is exactly gain / startingWeight * 100 when
\* startingWeight > 0, and 0 when startingWeight is 0.
C29_PercentGainExact ==
  [][lastOp'.op = "renderStats"
       => LET r == lastOp'.result
          IN IF r.startingWeight > 0
             THEN /\ r.percentGain.t = "fixed"
                  /\ r.percentGain.tenths * r.startingWeight = r.weightGain * 1000
             ELSE r.percentGain = Num(0)]_vars

\* C29: percentGain is gain / startingWeight * 100 rounded to the nearest
\* tenth, written with one decimal, when startingWeight > 0, and the
\* number 0 when startingWeight is 0, whatever currentWeight is.
C29_PercentGainOneDecimal ==
  [][lastOp'.op = "renderStats"
       => LET r == lastOp'.result
              off == r.percentGain.tenths * r.startingWeight - r.weightGain * 1000
          IN IF r.startingWeight > 0
             THEN /\ r.percentGain.t = "fixed"
                  /\ 2 * off <= r.startingWeight
                  /\ -2 * off <= r.startingWeight
             ELSE r.percentGain = Num(0)]_vars

\* Squat was selected with a first session of maxWeight 0 and a latest one
\* of maxWeight 220: the gain is 220 and percentGain is 0
C29_Witness ==
  /\ lastOp.op = "renderStats"
  /\ lastOp.name = "Squat"
  /\ lastOp.result.startingWeight = 0
  /\ lastOp.result.currentWeight = 220
  /\ lastOp.result.weightGain = 220
  /\ lastOp.result.percentGain = Num(0)

\* the stored history is missing or unreadable
NoHistory == history = << >> \/ Corrupt(history)

\* the stored session is missing or unreadable
NoSession == activeState = Null \/ activeState = Unparsable

\* C30: when the text of the history is missing or is not valid JSON,
\* getWorkoutHistory returns the empty history, getWorkoutCompletion
\* reports nothing completed, aggregateExerciseData returns no exercise
\* and a workout that is started has every weight and reps empty (no last
\* performance); when the text of the active workout is missing or is not
\* valid JSON, loadWorkoutState returns null and initWorkoutUI resumes
\* nothing: it starts the pending selection, or shows the empty state when
\* there is none.
C30_ReadsTolerateAbsentAndCorrupt ==
  [][/\ NoHistory => getWorkoutHistory = << >>
     /\ NoSession => loadWorkoutState = Null
     /\ (NoHistory /\ lastOp'.op = "getWorkoutCompletion") => lastOp'.result = Null
     /\ (NoHistory /\ lastOp'.op = "initProgressUI") => DOMAIN lastOp'.result = {}
     /\ (NoHistory /\ lastOp'.op = "startNewWorkout" /\ screen' = "active")
          => \A r \in Rows(currentWorkout') :
               /\ currentWorkout'.exercises[r[1]].loggedSets[r[2]].weight = EmptyStr
               /\ currentWorkout'.exercises[r[1]].loggedSets[r[2]].reps = EmptyStr
     /\ (NoSession /\ lastOp'.op = "initWorkoutUI")
          => /\ currentWorkout' = currentWorkout
             /\ IF pendingWorkout = Null
                THEN screen' = "empty" /\ inflight' = inflight
                ELSE inflight' = inflight (+) SetToBag({pendingWorkout})]_vars

\* an Upper workout was started on a device whose history text is cut off
\* after a record of Bench and whose active-workout text was unreadable:
\* nothing was resumed and Bench is not prefilled
C30_Witness ==
  /\ lastOp.op = "startNewWorkout"
  /\ screen = "active"
  /\ history = TruncatedHistory
  /\ currentWorkout # Null
  /\ currentWorkout.dayType = "Upper"
  /\ currentWorkout.exercises[1].loggedSets[1].weight = EmptyStr
  /\ activeState # Unparsable

\* a stored or held session and its successor are the same workout
Continues(a, b) == a # Null /\ b # Null /\ a.startedAt = b.startedAt

\* C31: a timer tick on a session adds exactly 1 to elapsedSeconds, stores
\* the new value in the snapshot and changes nothing else of the session;
\* no other step changes the elapsed time of a session that continues, in
\* memory or in its snapshot, and a resume takes it from the snapshot.
C31_OnlyTickAdvancesElapsed ==
  [][/\ (lastOp'.op = "tick" /\ currentWorkout # Null) =>
          /\ elapsedSeconds' = elapsedSeconds + 1
          /\ currentWorkout' =
               [currentWorkout EXCEPT !.elapsedSeconds = elapsedSeconds + 1]
          /\ SameSession(activeState', currentWorkout')
          /\ history' = history
     /\ (lastOp'.op # "tick" /\ Continues(currentWorkout, currentWorkout')) =>
          /\ elapsedSeconds' = elapsedSeconds
          /\ currentWorkout'.elapsedSeconds = currentWorkout.elapsedSeconds
     /\ (lastOp'.op # "tick" /\ Continues(activeState, activeState')) =>
          activeState'.elapsedSeconds = activeState.elapsedSeconds
     /\ Continues(activeState, activeState') =>
          activeState'.elapsedSeconds >= activeState.elapsedSeconds
     /\ (currentWorkout = Null /\ Continues(activeState, currentWorkout')) =>
          /\ elapsedSeconds' = activeState.elapsedSeconds
          /\ currentWorkout'.elapsedSeconds = activeState.elapsedSeconds
    ]_vars

\* a session that was reloaded and resumed after the timer had ticked
C31_Witness ==
  /\ lastOp.op = "initWorkoutUI"
  /\ currentWorkout # Null
  /\ elapsedSeconds = MaxElapsed
  /\ currentWorkout.elapsedSeconds = MaxElapsed
  /\ intervals = 1

\* every set logged in session a is the same set in session b, unless the
\* handler that ran was editSet on that set
LoggedSetsKept(a, b, label) ==
  \A r \in Rows(a) :
    a.exercises[r[1]].loggedSets[r[2]].logged =>
      \/ label.op = "editSet" /\ label.e = r[1] /\ label.s = r[2]
      \/ /\ r \in Rows(b)
         /\ b.exercises[r[1]].loggedSets[r[2]] =
              a.exercises[r[1]].loggedSets[r[2]]

\* C32: while a workout continues, a logged set keeps its weight, its reps
\* and its logged flag, in memory and in the snapshot, until editSet is
\* applied to that set; input events and the +/- buttons reach only sets
\* that are not logged.
C32_LoggedSetImmutableUntilEdit ==
  [][/\ Continues(currentWorkout, currentWorkout') =>
          LoggedSetsKept(currentWorkout, currentWorkout', lastOp')
     /\ Continues(activeState, activeState') =>
          LoggedSetsKept(activeState, activeState', lastOp')
     /\ (lastOp'.op = "handleInputChange" /\ currentWorkout # Null) =>
          ~currentWorkout.exercises[lastOp'.e].loggedSets[lastOp'.s].logged
    ]_vars

\* an input event on an open set of a workout that holds a logged set
C32_Witness ==
  /\ lastOp.op = "handleInputChange"
  /\ currentWorkout # Null
  /\ SomeLogged(currentWorkout)
  /\ ~currentWorkout.exercises[lastOp.e].loggedSets[lastOp.s].logged

\* C33: toggleExercise flips the expanded flag of its exercise and stores
\* the snapshot; the logged flags, the completed flags, weights, reps, the
\* elapsed time and the history stay, and a second toggleExercise on the
\* same exercise gives back the session as it was.
C33_ToggleFlipsOnlyExpanded ==
  [][lastOp'.op = "toggleExercise" =>
       /\ currentWorkout' # Null
       /\ currentWorkout'.exercises[lastOp'.e].expanded =
            ~currentWorkout.exercises[lastOp'.e].expanded
       /\ [currentWorkout' EXCEPT !.exercises[lastOp'.e].expanded = FALSE] =
            [currentWorkout EXCEPT !.exercises[lastOp'.e].expanded = FALSE]
       /\ SameSession(activeState', currentWorkout')
       /\ elapsedSeconds' = elapsedSeconds
       /\ history' = history
       /\ Toggled(currentWorkout', lastOp'.e) = currentWorkout
       /\ SameSession(saveWorkoutState(Toggled(currentWorkout', lastOp'.e)),
                      activeState)
    ]_vars

\* the second exercise of a workout with a logged set was collapsed
C33_Witness ==
  /\ lastOp.op = "toggleExercise"
  /\ lastOp.e = 2
  /\ currentWorkout # Null
  /\ ~currentWorkout.exercises[2].expanded
  /\ currentWorkout.exercises[1].expanded
  /\ SomeLogged(currentWorkout)

\* C34: the Start Workout button stores the pressed (week, dayType) as the
\* pending selection and changes nothing of the session; an initWorkoutUI
\* that finds no stored workout hands the pending selection to
\* startNewWorkout; and a startNewWorkout for a day of the catalog ends
\* with an active session of exactly that week and dayType, stored as the
\* snapshot, and with the pending selection removed.
C34_PendingSelectionStartsThatDay ==
  [][/\ lastOp'.op = "startWorkout" =>
          /\ pendingWorkout' =
               [week |-> lastOp'.week, dayType |-> lastOp'.dayType]
          /\ UNCHANGED << currentWorkout, activeState, history, inflight >>
     /\ (/\ lastOp'.op = "initWorkoutUI"
         /\ activeState = Null
         /\ pendingWorkout # Null) =>
          /\ inflight' = inflight (+) SetToBag({pendingWorkout})
          /\ pendingWorkout' = pendingWorkout
     /\ \A sel \in Selections :
          (/\ lastOp'.op = "startNewWorkout"
           /\ BagIn(sel, inflight)
           /\ inflight' = inflight (-) SetToBag({sel})) =>
             /\ currentWorkout' # Null
             /\ currentWorkout'.week = sel.week
             /\ currentWorkout'.dayType = sel.dayType
             /\ SameSession(activeState', currentWorkout')
             /\ screen' = "active"
             /\ pendingWorkout' = Null
    ]_vars

\* the session of the second day of week 1 was started from the selection
\* pressed on the Program tab
C34_Witness ==
  /\ lastOp.op = "startNewWorkout"
  /\ currentWorkout # Null
  /\ currentWorkout.week = 1
  /\ currentWorkout.dayType = "Full Body"
  /\ pendingWorkout = Null
  /\ inflight = EmptyBag

\* C35: getCurrentWeek(n) stores n and returns n; getCurrentWeek() changes
\* nothing, returns 1 when no week is stored, and returns n when it follows
\* getCurrentWeek(n) (read back from what that call stored); no other
\* handler (start, input, log, edit, tick, finish, cancel) changes the
\* stored week.
C35_CurrentWeekRoundTrip ==
  [][/\ (lastOp'.op = "getCurrentWeek" /\ lastOp'.weekNum # JNull) =>
          /\ lastOp'.returned = lastOp'.weekNum
          /\ currentWeek' # JNull
          /\ StoredWeekOrDefault(currentWeek') = lastOp'.weekNum
     /\ (lastOp'.op = "getCurrentWeek" /\ lastOp'.weekNum = JNull) =>
          /\ currentWeek' = currentWeek
          /\ currentWeek = JNull => lastOp'.returned = Num(1)
          /\ (lastOp.op = "getCurrentWeek" /\ lastOp.weekNum # JNull) =>
               lastOp'.returned = lastOp.weekNum
     /\ lastOp'.op # "getCurrentWeek" => currentWeek' = currentWeek
    ]_vars

\* week 0 was stored while a workout with a logged set was in progress, and
\* read back by the next call
C35_Witness ==
  /\ lastOp.op = "getCurrentWeek"
  /\ lastOp.weekNum = JNull
  /\ lastOp.returned = Num(0)
  /\ currentWeek = Str(0)
  /\ currentWorkout # Null
  /\ SomeLogged(currentWorkout)
  /\ elapsedSeconds > 0

\* C36: the summary shown by a finishWorkout whose write succeeds gives as
\* duration the elapsedSeconds the session had when finishWorkout was
\* called, and as counts the completed and the total exercises of that
\* session.
C36_SummaryShowsElapsedAndCounts ==
  [][(lastOp'.op = "finishWorkout" /\ lastOp'.write = "ok") =>
       /\ lastOp'.summary.duration = formatTime(elapsedSeconds)
       /\ lastOp'.summary.completed = CompletedCount(currentWorkout)
       /\ lastOp'.summary.total = TotalCount(currentWorkout)
    ]_vars

\* the handler that ran last ended a session: a confirmed cancelWorkout or
\* a finishWorkout whose write succeeded
SessionEnded ==
  \/ lastOp.op = "cancelWorkout" /\ lastOp.confirm = "yes"
  \/ lastOp.op = "finishWorkout" /\ lastOp.write = "ok"

\* C37: an initWorkoutUI that follows the end of a session (a confirmed
\* cancelWorkout or a successful finishWorkout) with no Start Workout
\* press since shows the empty state and starts no session, also when a
\* selection had been pressed during the ended session and was passed over
\* by a resume.
C37_NoSessionFromOldSelection ==
  [][(SessionEnded /\ lastOp'.op = "initWorkoutUI") =>
       /\ screen' = "empty"
       /\ currentWorkout' = Null
       /\ activeState' = Null
       /\ inflight' = inflight
    ]_vars

\* C38: the logged sets of the stored session stay logged, with their
\* values, in the session stored after any step, however initWorkoutUI
\* calls overlap; they go only with a confirmed cancelWorkout, with a
\* finishWorkout whose write succeeds, or (one set) with editSet on it.
C38_OverlappingInitsKeepLoggedSets ==
  [][(activeState # Null /\ SomeLogged(activeState)) =>
       \/ lastOp'.op = "cancelWorkout" /\ lastOp'.confirm = "yes"
       \/ lastOp'.op = "finishWorkout" /\ lastOp'.write = "ok"
       \/ /\ Continues(activeState, activeState')
          /\ LoggedSetsKept(activeState, activeState', lastOp')
          /\ currentWorkout' # Null
          /\ LoggedSetsKept(activeState, currentWorkout', lastOp')
    ]_vars

\* C39: after a finishWorkout whose write succeeds, a new workout of the
\* same day gets, in set number k of every exercise, the weight and reps
\* that were logged as set number k of that exercise in the workout just
\* finished (the most recent finished workout containing it), whichever
\* sets of it were logged.
C39_PrefillKeepsSetNumbers ==
  [][(lastOp'.op = "finishWorkout" /\ lastOp'.write = "ok") =>
       \A e \in DOMAIN currentWorkout.exercises :
         \A ex \in {getDay(currentWorkout.week,
                           currentWorkout.dayType).exercises[e]} :
           \A k \in DOMAIN currentWorkout.exercises[e].loggedSets :
             \A set \in {currentWorkout.exercises[e].loggedSets[k]} :
               set.logged =>
                 /\ k \in DOMAIN NewExercise(ex)'.loggedSets
                 /\ NewExercise(ex)'.loggedSets[k].weight =
                      JSONValue(parseFloat(set.weight))
                 /\ NewExercise(ex)'.loggedSets[k].reps =
                      JSONValue(parseInt(set.reps))
    ]_vars

\* the record with the greatest completedAt among those in which the
\* exercise has a logged set
LatestWithSets(name) ==
  CHOOSE j \in RecordsWithSets(name) :
    \A k \in RecordsWithSets(name) :
      ~Earlier(history[j].completedAt, history[k].completedAt)

\* C40: when some record of the history holds a logged set of an exercise,
\* a new workout containing the exercise has set 1 of it filled with the
\* first set of the most recent such record, also when a later record
\* holds the exercise with no set.
C40_PrefillFromLastPerformed ==
  [][(lastOp'.op = "startNewWorkout" /\ screen' = "active")
       => \A e \in DOMAIN currentWorkout'.exercises :
            LET ex == currentWorkout'.exercises[e]
            IN RecordsWithSets(ex.name) # {} =>
                 /\ ex.loggedSets[1].weight =
                      SetsIn(LatestWithSets(ex.name), ex.name)[1].weight
                 /\ ex.loggedSets[1].reps =
                      SetsIn(LatestWithSets(ex.name), ex.name)[1].reps
    ]_vars

====
